---- MODULE Spec2Model ----
(***************************************************************************)
(* Model of buf.build/go/app and buf.build/go/app/appcmd.                  *)
(*                                                                         *)
(*   - the exit-code error protocol of package app (NewError, NewErrorf,   *)
(*     WrapError, GetExitCode), specification SpecErr;                     *)
(*   - the command-tree builder and executor of package appcmd (run,       *)
(*     commandToCobra, commandValidate, the --version and --help-tree      *)
(*     wrappers) driven through app.Run and app.Main, specification Spec.  *)
(*                                                                         *)
(* An error value is its chain of layers, outermost first; the nil error   *)
(* is the empty chain.  Text is TLA+ strings; an output stream is the      *)
(* sequence of chunks written to it.                                       *)
(***************************************************************************)
EXTENDS Integers, Sequences, FiniteSets, TLC

VARIABLES
    \* exit-code error protocol (package app)
    ev,          \* the error value the caller holds
    ec,          \* the last call of GetExitCode: <<[of, code]>>, <<>> before any
    ecall,       \* the last constructor call: <<[fn, code]>>
    epanic,      \* TRUE once a constructor failed with a contract violation
    \* one invocation of app.Main / app.Run on an appcmd command
    rootCommand, \* the root *Command handed to appcmd.Run
    osArgs,      \* the container's arguments, program name first
    pc,          \* where the invocation stands
    compiled,    \* <<the compiled root cobraCommand>> once built, <<>> before
    outSink,     \* the stream SetOut names: "stderr" or "stdout"
    errSink,     \* the stream SetErr names
    target,      \* <<[path, args]>>: the command Find found and its args
    call,        \* <<the call of Run the library is about to make>>
    execErr,     \* the error Execute returned
    runErr,      \* the shared last-error slot (var runErr, appcmd.go:140)
    runErrWrites,\* every value stored through runErrAddr, in order
    ran,         \* the closures whose body ran, in order
    stdout,      \* chunks written to container.Stdout()
    stderr,      \* chunks written to container.Stderr()
    result,      \* <<the error run returned>>, <<>> while it runs
    appResult,   \* <<the error app.Run returned>>, <<>> while it runs
    osExit,      \* <<the exit code app.Main hands to os.Exit>>
    \* environment containers (package app)
    envInput,    \* the map NewEnvContainer was given
    envBase,     \* the container NewEnvContainer returned
    envOver,     \* <<the overrides NewEnvContainerWithOverrides was given>>
    envNew,      \* <<the container NewEnvContainerWithOverrides returned>>
    envOut,      \* <<the last lookup or enumeration: [op, of, key, result]>>
    \* name containers (package appext)
    appName,     \* the application name given to newNameContainer
    nameErr,     \* <<the error newNameContainer returned>>
    prefixOut,   \* <<what getAppNameEnvPrefix returned>>
    nameEnv,     \* the base container's environment
    nc,          \* the nameContainer: per field its value, error and sync.Once
    runs,        \* per field, the results of the computations that ran
    g,           \* per goroutine: its position, the accessor it called, its return
    \* --help-tree on its own
    htTree,      \* the compiled command helpTreeString is called with
    htOut        \* <<[maxPadding, lines]: the padding and the lines of the listing>>

errVars == <<ev, ec, ecall, epanic>>

cmdVars == <<rootCommand, osArgs, pc, compiled, outSink, errSink, target, call, execErr,
             runErr, runErrWrites, ran, stdout, stderr, result, appResult,
             osExit>>

envVars == <<envInput, envBase, envOver, envNew, envOut>>

nameVars == <<appName, nameErr, prefixOut, nameEnv, nc, runs, g>>

helpVars == <<htTree, htOut>>

libVars == <<envVars, nameVars, helpVars>>

vars == <<errVars, cmdVars, libVars>>

(***************************************************************************)
(* Bounds.                                                                 *)
(***************************************************************************)
MaxCode == 2        \* exit codes are drawn from 0..MaxCode
MaxChain == 3       \* an error chain has at most MaxChain layers
MaxArgs == 2        \* arguments after the program name
MaxEnvValue == 2    \* environment values are "" and the digits 1..MaxEnvValue
MaxNameLen == 4     \* bytes of an application name
NumGoroutines == 2  \* goroutines that call an accessor of one name container
MaxNameWidth == 3   \* bytes of a command name in the trees listed on their own


(***************************************************************************)
(* Strings.                                                                *)
(***************************************************************************)
HasPrefix(s, prefix) ==
    /\ Len(s) >= Len(prefix)
    /\ SubSeq(s, 1, Len(prefix)) = prefix

RECURSIVE Repeat(_, _)
Repeat(s, count) == IF count <= 0 THEN "" ELSE s \o Repeat(s, count - 1)

RECURSIVE Join(_, _)
Join(elems, sep) ==
    IF elems = <<>> THEN ""
    ELSE IF Len(elems) = 1 THEN elems[1]
    ELSE elems[1] \o sep \o Join(Tail(elems), sep)

(***************************************************************************)
(* Error values.                                                           *)
(*   "msg"     errors.New(m) or fmt.Errorf without %w: the end of a chain  *)
(*   "wrap"    fmt.Errorf("...: %w", err)                                  *)
(*   "app"     *appError, carries the exit code                            *)
(*   "invalid" *invalidArgumentError                                       *)
(***************************************************************************)
NilErr == <<>>

Layer(k, code, m) == [k |-> k, code |-> code, m |-> m]

errorsNew(m) == <<Layer("msg", 0, m)>>

fmtErrorfW(m, err) == <<Layer("wrap", 0, m)>> \o err

Unwrap(err) == Tail(err)

\* errors.As: the first layer of the chain that has the target's type, as a
\* one-element sequence; the empty sequence when the chain has none.
RECURSIVE errorsAs(_, _)
errorsAs(err, kind) ==
    IF err = NilErr THEN <<>>
    ELSE IF Head(err).k = kind THEN <<Head(err)>>
    ELSE errorsAs(Unwrap(err), kind)

\* errors.As that looks at the outermost value only.
errorsAs_OutermostOnly(err, kind) ==
    IF err = NilErr THEN <<>>
    ELSE IF Head(err).k = kind THEN <<Head(err)>>
    ELSE <<>>

\* newAppError: exit code 0 is a contract violation, otherwise the error
\* wraps err and carries exitCode.
newAppError(exitCode, err) ==
    IF exitCode = 0
    THEN [panic |-> TRUE, err |-> NilErr]
    ELSE [panic |-> FALSE, err |-> <<Layer("app", exitCode, "")>> \o err]

NewError_Unchecked(exitCode, message) ==
    [panic |-> FALSE, err |-> <<Layer("app", exitCode, "")>> \o errorsNew(message)]

NewError(exitCode, message) == newAppError(exitCode, errorsNew(message))

NewErrorf(exitCode, format) == newAppError(exitCode, errorsNew(format))

WrapError(exitCode, err) == newAppError(exitCode, err)

GetExitCode_OutermostOnly(err) ==
    IF err = NilErr THEN 0
    ELSE LET appErr == errorsAs_OutermostOnly(err, "app")
         IN  IF appErr # <<>> THEN appErr[1].code ELSE 1

GetExitCode(err) ==
    IF err = NilErr THEN 0
    ELSE LET appErr == errorsAs(err, "app")
         IN  IF appErr # <<>> THEN appErr[1].code ELSE 1

\* newInvalidArgumentError wraps the delegate.
newInvalidArgumentError(delegate) == <<Layer("invalid", 0, "")>> \o delegate

(***************************************************************************)
(* Command (appcmd.go:34-79).  Run is "nil" or names the function; Args    *)
(* is "nil" or names the validator; ModifyCobra is "nil" or "func".        *)
(* Aliases and the flag-binding and flag-normalisation callbacks are left  *)
(* unset in every command of the model.                                    *)
(***************************************************************************)
Command(use, short, run, subCommands) ==
    [Use |-> use, Aliases |-> <<>>, Short |-> short, Long |-> "", Args |-> "nil",
     Deprecated |-> "", Hidden |-> FALSE, Run |-> run,
     SubCommands |-> subCommands, ModifyCobra |-> "nil", Version |-> ""]

\* The command with the fields of `fields` replaced at the node `path`
\* (child indices from the root).
RECURSIVE SetAt(_, _, _)
SetAt(command, path, fields) ==
    IF path = <<>> THEN fields @@ command
    ELSE [command EXCEPT
             !.SubCommands[Head(path)] = SetAt(@, Tail(path), fields)]

(***************************************************************************)
(* commandValidate (appcmd.go:377-391).                                    *)
(***************************************************************************)
commandValidate_NoRunCheck(command) ==
    IF command.Use = "" THEN errorsNew("must set Command.Use")
    ELSE IF command.Long # "" /\ command.Short = ""
    THEN errorsNew("must set Command.Short if Command.Long is set")
    ELSE NilErr

commandValidate(command) ==
    IF command.Use = "" THEN errorsNew("must set Command.Use")
    ELSE IF command.Long # "" /\ command.Short = ""
    THEN errorsNew("must set Command.Short if Command.Long is set")
    ELSE IF command.Run # "nil" /\ Len(command.SubCommands) > 0
    THEN errorsNew("cannot set both Command.Run and Command.SubCommands")
    ELSE IF command.Run = "nil" /\ Len(command.SubCommands) = 0
    THEN errorsNew("must set one of Command.Run and Command.SubCommands")
    ELSE NilErr

(***************************************************************************)
(* strings.TrimSpace, for the white space the model's texts contain.       *)
(***************************************************************************)
IsSpace(c) == c \in {" ", "\n", "\t"}

RECURSIVE TrimLeft(_)
TrimLeft(s) ==
    IF Len(s) > 0 /\ IsSpace(SubSeq(s, 1, 1))
    THEN TrimLeft(SubSeq(s, 2, Len(s))) ELSE s

RECURSIVE TrimRight(_)
TrimRight(s) ==
    IF Len(s) > 0 /\ IsSpace(SubSeq(s, Len(s), Len(s)))
    THEN TrimRight(SubSeq(s, 1, Len(s) - 1)) ELSE s

TrimSpace(s) == TrimRight(TrimLeft(s))

(***************************************************************************)
(* The compiled command: the cobra.Command that commandToCobra builds.     *)
(* Run is the chain of closures installed on it, outermost first:          *)
(*   [w |-> "version", v |-> version]   appcmd.go:363-370                  *)
(*   [w |-> "helpTree"]                 appcmd.go:416-423                  *)
(*   [w |-> "sub"]                      appcmd.go:337-344                  *)
(*   [w |-> "leaf", v |-> function]     appcmd.go:324-333                  *)
(* flags is the set of flags defined on the command's own flag set.        *)
(***************************************************************************)
Wrapper(w, v) == [w |-> w, v |-> v]

AddCommand(cobraCommand, subCobraCommand) ==
    [cobraCommand EXCEPT !.commands = Append(@, subCobraCommand)]

\* addHelpTreeFlag (appcmd.go:403-424)
addHelpTreeFlag(cmd) ==
    [cmd EXCEPT !.flags = @ \cup {"help-tree"},
                !.Run = <<Wrapper("helpTree", "")>> \o @]

\* the version closure installed beneath the help-tree closure
addVersionFlag_Inner(cobraCommand, version) ==
    [cobraCommand EXCEPT
        !.flags = @ \cup {"version"},
        !.Run = IF @ # <<>> /\ Head(@).w = "helpTree"
                THEN <<Head(@), Wrapper("version", version)>> \o Tail(@)
                ELSE <<Wrapper("version", version)>> \o @]

\* the if command.Version != "" block (appcmd.go:354-371)
addVersionFlag(cobraCommand, version) ==
    [cobraCommand EXCEPT !.flags = @ \cup {"version"},
                         !.Run = <<Wrapper("version", version)>> \o @]

\* a compiled command the library prints the errors of
silenceErrors_Not(cobraCommand) == cobraCommand

\* appcmd.go:372-373: the error is printed in app.Run
silenceErrors(cobraCommand) == [cobraCommand EXCEPT !.SilenceErrors = TRUE]

\* commandToCobra (appcmd.go:275-375): [err, cmd], cmd = <<the command>>
\* when err is nil.
RECURSIVE commandToCobra(_)
RECURSIVE subCommandsToCobra(_, _)

\* the loop of appcmd.go:345-351 over the sub-commands still to add
subCommandsToCobra(cobraCommand, subCommands) ==
    IF subCommands = <<>> THEN [err |-> NilErr, cmd |-> <<cobraCommand>>]
    ELSE LET sub == commandToCobra(Head(subCommands))
         IN  IF sub.err # NilErr THEN [err |-> sub.err, cmd |-> <<>>]
             ELSE subCommandsToCobra(AddCommand(cobraCommand, sub.cmd[1]),
                                     Tail(subCommands))

commandToCobra(command) ==
    LET err == commandValidate(command)
        c0 == [Use |-> command.Use,
               Aliases |-> command.Aliases,
               Args |-> command.Args,
               Deprecated |-> command.Deprecated,
               Hidden |-> command.Hidden,
               Short |-> TrimSpace(command.Short),
               Long |-> IF command.Long # "" THEN TrimSpace(command.Long) ELSE "",
               Run |-> IF command.Run # "nil"
                       THEN <<Wrapper("leaf", command.Run)>> ELSE <<>>,
               commands |-> <<>>,
               flags |-> {},
               SilenceErrors |-> FALSE,
               DisableFlagParsing |-> FALSE,
               modified |-> FALSE]
        c1 == IF Len(command.SubCommands) > 0
              THEN LET subs == subCommandsToCobra(
                                   [c0 EXCEPT !.Run = <<Wrapper("sub", "")>>],
                                   command.SubCommands)
                   IN  IF subs.err # NilErr THEN subs
                       ELSE [err |-> NilErr, cmd |-> <<addHelpTreeFlag(subs.cmd[1])>>]
              ELSE [err |-> NilErr, cmd |-> <<c0>>]
    IN  IF err # NilErr THEN [err |-> err, cmd |-> <<>>]
        ELSE IF c1.err # NilErr THEN c1
        ELSE LET c2 == IF command.Version # ""
                       THEN addVersionFlag(c1.cmd[1], command.Version)
                       ELSE c1.cmd[1]
             IN  [err |-> NilErr, cmd |-> <<silenceErrors(c2)>>]

(***************************************************************************)
(* --help-tree (appcmd.go:426-464).                                        *)
(***************************************************************************)
RECURSIVE IndexByte(_, _, _)
\* the index of the first c in s at or after i, 0 when there is none
IndexByte(s, c, i) ==
    IF i > Len(s) THEN 0
    ELSE IF SubSeq(s, i, i) = c THEN i
    ELSE IndexByte(s, c, i + 1)

Contains(s, c) == IndexByte(s, c, 1) # 0

\* cobra.Command.Name: the first word of Use
Name(cmd) ==
    LET i == IndexByte(cmd.Use, " ", 1)
    IN  IF i > 0 THEN SubSeq(cmd.Use, 1, i - 1) ELSE cmd.Use

\* the bytes that occur in command names, in byte order
ByteOrder == " -0123456789<=>ABCDEFGHIJKLMNOPQRSTUVWXYZ[]_abcdefghijklmnopqrstuvwxyz"

ByteTable ==
    [c \in {SubSeq(ByteOrder, i, i) : i \in 1..Len(ByteOrder)} |->
        IndexByte(ByteOrder, c, 1)]

Byte(c) == ByteTable[c]

RECURSIVE StringLess(_, _)
StringLess(s, t) ==
    IF Len(t) = 0 THEN FALSE
    ELSE IF Len(s) = 0 THEN TRUE
    ELSE IF SubSeq(s, 1, 1) = SubSeq(t, 1, 1)
    THEN StringLess(SubSeq(s, 2, Len(s)), SubSeq(t, 2, Len(t)))
    ELSE Byte(SubSeq(s, 1, 1)) < Byte(SubSeq(t, 1, 1))

\* sort.Sort(commandSorterByName(...)): insertion of cmd into sorted cmds
RECURSIVE InsertByName(_, _)
InsertByName(cmds, cmd) ==
    IF cmds = <<>> THEN <<cmd>>
    ELSE IF StringLess(Name(cmd), Name(Head(cmds))) THEN <<cmd>> \o cmds
    ELSE <<Head(cmds)>> \o InsertByName(Tail(cmds), cmd)

RECURSIVE SortByName(_)
SortByName(cmds) ==
    IF cmds = <<>> THEN <<>>
    ELSE InsertByName(SortByName(SubSeq(cmds, 1, Len(cmds) - 1)), cmds[Len(cmds)])

\* cobra.Command.Commands: the sub-commands, sorted by name
Commands(cmd) == SortByName(cmd.commands)

maxInt(i, j) == IF i > j THEN i ELSE j

\* a padding that measures the command alone
maxPaddingRec_Shallow(cmd, curIndentCount) == (curIndentCount * 2) + Len(Name(cmd))

RECURSIVE maxPaddingRec(_, _)
RECURSIVE maxPaddingChildren(_, _, _)
maxPaddingChildren(children, curIndentCount, maxPadding) ==
    IF children = <<>> THEN maxPadding
    ELSE maxPaddingChildren(
             Tail(children), curIndentCount,
             IF ~Head(children).Hidden
             THEN maxInt(maxPadding, maxPaddingRec(Head(children), curIndentCount + 1))
             ELSE maxPadding)

maxPaddingRec(cmd, curIndentCount) ==
    maxPaddingChildren(Commands(cmd), curIndentCount,
                       (curIndentCount * 2) + Len(Name(cmd)))

\* A line of the listing, kept with the pieces it is built from.  pad is
\* the count handed to strings.Repeat, which panics on a negative count.
HelpTreeLine(cmd, maxPadding, curIndentCount) ==
    [name |-> Name(cmd),
     depth |-> curIndentCount,
     pad |-> maxPadding - (Len(Name(cmd)) + (curIndentCount * 2)),
     text |-> Repeat(" ", curIndentCount * 2) \o Name(cmd)
              \o Repeat(" ", maxPadding - (Len(Name(cmd)) + (curIndentCount * 2)))
              \o "  " \o cmd.Short \o "\n"]

RECURSIVE helpTreeStringRec(_, _, _)
RECURSIVE helpTreeChildren(_, _, _)
helpTreeChildren(children, maxPadding, curIndentCount) ==
    IF children = <<>> THEN <<>>
    ELSE helpTreeStringRec(Head(children), maxPadding, curIndentCount + 1)
         \o helpTreeChildren(Tail(children), maxPadding, curIndentCount)

\* the lines written to the builder, in order
helpTreeStringRec(cmd, maxPadding, curIndentCount) ==
    IF cmd.Hidden THEN <<>>
    ELSE (IF Name(cmd) # ""
          THEN <<HelpTreeLine(cmd, maxPadding, curIndentCount)>> ELSE <<>>)
         \o helpTreeChildren(Commands(cmd), maxPadding, curIndentCount)

\* a listing that does not skip hidden commands
RECURSIVE helpTreeStringRec_ShowHidden(_, _, _)
RECURSIVE helpTreeChildren_ShowHidden(_, _, _)
helpTreeChildren_ShowHidden(children, maxPadding, curIndentCount) ==
    IF children = <<>> THEN <<>>
    ELSE helpTreeStringRec_ShowHidden(Head(children), maxPadding, curIndentCount + 1)
         \o helpTreeChildren_ShowHidden(Tail(children), maxPadding, curIndentCount)

helpTreeStringRec_ShowHidden(cmd, maxPadding, curIndentCount) ==
    (IF Name(cmd) # ""
     THEN <<HelpTreeLine(cmd, maxPadding, curIndentCount)>> ELSE <<>>)
    \o helpTreeChildren_ShowHidden(Commands(cmd), maxPadding, curIndentCount)

helpTreeLines_ShowHidden(cmd) ==
    helpTreeStringRec_ShowHidden(cmd, maxPaddingRec(cmd, 0), 0)

helpTreeLines(cmd) == helpTreeStringRec(cmd, maxPaddingRec(cmd, 0), 0)

RECURSIVE ConcatText(_)
ConcatText(lines) ==
    IF lines = <<>> THEN "" ELSE Head(lines).text \o ConcatText(Tail(lines))

helpTreeString(cmd) == ConcatText(helpTreeLines(cmd))

(***************************************************************************)
(* The command-line library (github.com/spf13/cobra, pflag) as far as      *)
(* cobraCommand.Execute (appcmd.go:269) exercises it: the default help     *)
(* command, the completion request command, Find, the legacy check of a    *)
(* root without an args validator, flag parsing, --help, args validation   *)
(* and usage on a failed execution.                                        *)
(***************************************************************************)
Chunk(t, str) == [t |-> t, s |-> str]

CobraCommand(use, aliases, short, args, hidden, run, noFlagParsing) ==
    [Use |-> use, Aliases |-> aliases, Args |-> args, Deprecated |-> "",
     Hidden |-> hidden, Short |-> short, Long |-> "", Run |-> run,
     commands |-> <<>>, flags |-> {}, SilenceErrors |-> FALSE,
     DisableFlagParsing |-> noFlagParsing, modified |-> FALSE]

HelpCommand ==
    CobraCommand("help [command]", <<>>, "Help about any command", "nil",
                 FALSE, <<Wrapper("cobraHelp", "")>>, FALSE)

CompleteCommand ==
    CobraCommand("__complete [command-line]", <<"__completeNoDesc">>,
                 "Request shell completion choices for the specified command-line",
                 "MinimumNArgs1", TRUE, <<Wrapper("complete", "")>>, TRUE)

HasSubCommands(c) == Len(c.commands) > 0

InitDefaultHelpCmd(c) ==
    IF HasSubCommands(c) THEN AddCommand(c, HelpCommand) ELSE c

RECURSIVE CommandAt(_, _)
CommandAt(c, path) ==
    IF path = <<>> THEN c ELSE CommandAt(c.commands[Head(path)], Tail(path))

RECURSIVE CommandPath(_, _)
CommandPath(c, path) ==
    IF path = <<>> THEN Name(c)
    ELSE Name(c) \o " " \o CommandPath(c.commands[Head(path)], Tail(path))

HasAlias(c, str) == \E i \in 1..Len(c.Aliases) : c.Aliases[i] = str

\* findNext: the index of the first sub-command named next, 0 for none
findNext(c, next) ==
    LET matches == {i \in 1..Len(c.commands) :
                       Name(c.commands[i]) = next \/ HasAlias(c.commands[i], next)}
    IN  IF matches = {} THEN 0
        ELSE CHOOSE i \in matches : \A j \in matches : i <= j

\* every flag of the model is a bool flag, whose NoOptDefVal is "true"
hasNoOptDefVal(name, flags) == name \in flags

\* no flag of the model has a shorthand when Find runs
shortHasNoOptDefVal(name, flags) == FALSE

\* a flag that takes its value from the next argument
TakesNextArg(str, flags) ==
    \/ /\ HasPrefix(str, "--")
       /\ ~Contains(str, "=")
       /\ ~hasNoOptDefVal(SubSeq(str, 3, Len(str)), flags)
    \/ /\ HasPrefix(str, "-")
       /\ ~Contains(str, "=")
       /\ Len(str) = 2
       /\ ~shortHasNoOptDefVal(SubSeq(str, 2, 2), flags)

RECURSIVE stripFlagsLoop(_, _, _)
stripFlagsLoop(args, flags, commands) ==
    IF args = <<>> THEN commands
    ELSE LET str == Head(args)
             rest == Tail(args)
         IN  IF str = "--" THEN commands
             ELSE IF TakesNextArg(str, flags)
             THEN IF Len(rest) <= 1 THEN commands
                  ELSE stripFlagsLoop(Tail(rest), flags, commands)
             ELSE IF str # "" /\ ~HasPrefix(str, "-")
             THEN stripFlagsLoop(rest, flags, Append(commands, str))
             ELSE stripFlagsLoop(rest, flags, commands)

stripFlags(args, c) == stripFlagsLoop(args, c.flags, <<>>)

RECURSIVE argsMinusFirstXLoop(_, _, _, _)
argsMinusFirstXLoop(args, x, flags, pos) ==
    IF pos > Len(args) THEN args
    ELSE LET str == args[pos]
         IN  IF str = "--" THEN args
             ELSE IF TakesNextArg(str, flags)
             THEN argsMinusFirstXLoop(args, x, flags, pos + 2)
             ELSE IF ~HasPrefix(str, "-") /\ str = x
             THEN SubSeq(args, 1, pos - 1) \o SubSeq(args, pos + 1, Len(args))
             ELSE argsMinusFirstXLoop(args, x, flags, pos + 1)

argsMinusFirstX(c, args, x) == argsMinusFirstXLoop(args, x, c.flags, 1)

\* innerfind: c is the command at path; [path, args] of the command found
RECURSIVE innerfind(_, _, _)
innerfind(c, path, innerArgs) ==
    LET argsWOflags == stripFlags(innerArgs, c)
    IN  IF argsWOflags = <<>> THEN [path |-> path, args |-> innerArgs]
        ELSE IF findNext(c, argsWOflags[1]) # 0
        THEN innerfind(c.commands[findNext(c, argsWOflags[1])],
                       Append(path, findNext(c, argsWOflags[1])),
                       argsMinusFirstX(c, innerArgs, argsWOflags[1]))
        ELSE [path |-> path, args |-> innerArgs]

UnknownCommand(arg, commandPath) ==
    errorsNew("unknown command \"" \o arg \o "\" for \"" \o commandPath \o "\"")

Upper == "ABCDEFGHIJKLMNOPQRSTUVWXYZ"

Lower == "abcdefghijklmnopqrstuvwxyz"

RECURSIVE ToLower(_)
ToLower(str) ==
    IF str = "" THEN ""
    ELSE (IF IndexByte(Upper, SubSeq(str, 1, 1), 1) > 0
          THEN SubSeq(Lower, IndexByte(Upper, SubSeq(str, 1, 1), 1),
                      IndexByte(Upper, SubSeq(str, 1, 1), 1))
          ELSE SubSeq(str, 1, 1))
         \o ToLower(SubSeq(str, 2, Len(str)))

\* one column of the matrix of ld: d[0..len(s)][j] from d[0..len(s)][j-1]
RECURSIVE ldColumn(_, _, _, _)
ldColumn(prev, str, ch, col) ==
    IF Len(col) = Len(prev) THEN col
    ELSE ldColumn(prev, str, ch,
                  Append(col,
                         IF SubSeq(str, Len(col), Len(col)) = ch THEN prev[Len(col)]
                         ELSE 1 + (CHOOSE m \in {prev[Len(col) + 1], col[Len(col)],
                                                 prev[Len(col)]} :
                                      /\ m <= prev[Len(col) + 1]
                                      /\ m <= col[Len(col)]
                                      /\ m <= prev[Len(col)])))

RECURSIVE ldColumns(_, _, _, _)
ldColumns(prev, str, t, j) ==
    IF j > Len(t) THEN prev[Len(prev)]
    ELSE ldColumns(ldColumn(prev, str, SubSeq(t, j, j), <<j>>), str, t, j + 1)

\* the Levenshtein distance of the library, ignoring case
ld(str, t) ==
    ldColumns([i \in 1..(Len(str) + 1) |-> i - 1], ToLower(str), ToLower(t), 1)

SuggestionsMinimumDistance == 2

\* IsAvailableCommand of a sub-command that is not the help command
IsAvailableCommand(c) == Len(c.Deprecated) = 0 /\ ~c.Hidden /\ Name(c) # "help"

RECURSIVE SuggestionsFor(_, _)
SuggestionsFor(commands, typedName) ==
    IF commands = <<>> THEN ""
    ELSE (IF /\ IsAvailableCommand(Head(commands))
             /\ \/ ld(typedName, Name(Head(commands))) <= SuggestionsMinimumDistance
                \/ HasPrefix(ToLower(Name(Head(commands))), ToLower(typedName))
          THEN "\t" \o Name(Head(commands)) \o "\n" ELSE "")
         \o SuggestionsFor(Tail(commands), typedName)

findSuggestions(c, arg) ==
    IF SuggestionsFor(c.commands, arg) = "" THEN ""
    ELSE "\n\nDid you mean this?\n" \o SuggestionsFor(c.commands, arg)

\* a root without an args validator that accepts any positional argument
legacyArgsValidation_Lenient(cmd, hasParent, commandPath, args) == NilErr

legacyArgsValidation(cmd, hasParent, commandPath, args) ==
    IF ~HasSubCommands(cmd) THEN NilErr
    ELSE IF ~hasParent /\ Len(args) > 0
    THEN errorsNew("unknown command \"" \o args[1] \o "\" for \"" \o commandPath
                   \o "\"" \o findSuggestions(cmd, args[1]))
    ELSE NilErr

\* the check Find makes of the command innerfind found
findValidate(c, commandFound, path, a) ==
    [path |-> path,
     args |-> a,
     err |-> IF commandFound.Args = "nil"
             THEN legacyArgsValidation(commandFound, path # <<>>,
                                       CommandPath(c, path),
                                       stripFlags(a, commandFound))
             ELSE NilErr]

findFound(c, f) == findValidate(c, CommandAt(c, f.path), f.path, f.args)

Find(c, args) == findFound(c, innerfind(c, <<>>, args))

\* initCompleteCmd: the request command stays only when it is being called
keepCompleteCmd(c, with, f) ==
    IF f.err # NilErr \/ Name(CommandAt(with, f.path)) # "__complete"
    THEN c ELSE with

initCompleteCmd(c, args) ==
    keepCompleteCmd(c, AddCommand(c, CompleteCommand),
                    Find(AddCommand(c, CompleteCommand), args))

\* pflag parsing of the arguments of the found command: [err, set, args]
RECURSIVE parseArgs(_, _, _, _)
parseArgs(a, flags, set, args) ==
    IF a = <<>> THEN [err |-> NilErr, set |-> set, args |-> args]
    ELSE LET str == Head(a)
         IN  IF Len(str) < 2 \/ ~HasPrefix(str, "-")
             THEN parseArgs(Tail(a), flags, set, Append(args, str))
             ELSE IF str = "--"
             THEN [err |-> NilErr, set |-> set, args |-> args \o Tail(a)]
             ELSE IF HasPrefix(str, "--")
             THEN LET name == SubSeq(str, 3, Len(str))
                  IN  IF name \in flags
                      THEN parseArgs(Tail(a), flags, set \cup {name}, args)
                      ELSE [err |-> errorsNew("unknown flag: --" \o name),
                            set |-> set, args |-> args]
             ELSE IF str = "-h"
             THEN parseArgs(Tail(a), flags, set \cup {"help"}, args)
             ELSE [err |-> errorsNew("unknown shorthand flag: " \o str),
                   set |-> set, args |-> args]

\* InitDefaultHelpFlag, then ParseFlags
ParseFlags(c, a) ==
    IF c.DisableFlagParsing THEN [err |-> NilErr, set |-> {}, args |-> a]
    ELSE parseArgs(a, c.flags \cup {"help"}, {}, <<>>)

ValidateArgs(c, commandPath, args) ==
    CASE c.Args = "nil" -> NilErr
      [] c.Args = "NoArgs" ->
            IF Len(args) > 0 THEN UnknownCommand(args[1], commandPath) ELSE NilErr
      [] c.Args = "ExactArgs1" ->
            IF Len(args) # 1 THEN errorsNew("accepts 1 arg(s), received more or fewer")
            ELSE NilErr
      [] c.Args = "MinimumNArgs1" ->
            IF Len(args) < 1 THEN errorsNew("requires at least 1 arg(s)") ELSE NilErr

\* cmd.execute up to the call of cmd.Run: what the library prints to the out
\* sink (SetOut) and through the help function, its error, and the call of
\* Run it is about to make.
executeParsed(cmd, commandPath, path, parsed, deprecated) ==
    IF parsed.err # NilErr
    THEN [out |-> deprecated \o <<Chunk("usage", commandPath)>>, help |-> <<>>,
          err |-> parsed.err, call |-> <<>>]
    ELSE IF "help" \in parsed.set
    THEN [out |-> deprecated, help |-> <<Chunk("help", commandPath)>>,
          err |-> NilErr, call |-> <<>>]
    ELSE IF ValidateArgs(cmd, commandPath, parsed.args) # NilErr
    THEN [out |-> deprecated \o <<Chunk("usage", commandPath)>>, help |-> <<>>,
          err |-> ValidateArgs(cmd, commandPath, parsed.args), call |-> <<>>]
    ELSE [out |-> deprecated, help |-> <<>>, err |-> NilErr,
          call |-> <<[path |-> path, args |-> parsed.args, set |-> parsed.set]>>]

executeCommand(cmd, commandPath, path, a) ==
    executeParsed(cmd, commandPath, path, ParseFlags(cmd, a),
                  IF Len(cmd.Deprecated) > 0
                  THEN <<Chunk("deprecated", Name(cmd))>> ELSE <<>>)

execute(c, path, a) ==
    executeCommand(CommandAt(c, path), CommandPath(c, path), path, a)

\* the message an error prints: Error() of the chain
RECURSIVE ErrorString(_)
ErrorString(err) ==
    IF err = NilErr THEN ""
    ELSE IF Head(err).k = "msg" THEN Head(err).m
    ELSE IF Head(err).k = "wrap" THEN Head(err).m \o ": " \o ErrorString(Unwrap(err))
    ELSE ErrorString(Unwrap(err))

\* c.PrintErrln(c.ErrPrefix(), err.Error()): what the library prints to the
\* error sink (SetErr) for the error of e unless the errors are silenced
printErrln(silenced, e) ==
    [errOut |-> IF e.err # NilErr /\ ~silenced
                THEN <<Chunk("error", "Error: " \o ErrorString(e.err))>> ELSE <<>>] @@ e

\* ExecuteC up to the call of Run: the error of Find is printed unless the
\* found command has SilenceErrors, the error of execute unless the command
\* or the root has it.
executeFound(c, f) ==
    IF f.err # NilErr
    THEN printErrln(CommandAt(c, f.path).SilenceErrors,
                    [c |-> c, path |-> f.path, args |-> f.args, out |-> <<>>,
                     help |-> <<>>, err |-> f.err, call |-> <<>>])
    ELSE [c |-> c, path |-> f.path, args |-> f.args]
         @@ printErrln(CommandAt(c, f.path).SilenceErrors \/ c.SilenceErrors,
                       execute(c, f.path, f.args))

executeWith(c, args) == executeFound(c, Find(c, args))

ExecuteC(cobraCommand, args) ==
    executeWith(initCompleteCmd(InitDefaultHelpCmd(cobraCommand), args), args)

(***************************************************************************)
(* The closures commandToCobra installs as cobra.Command.Run, and the two  *)
(* the library installs on its own commands.  ctx is the call: the root    *)
(* c, the path of the command, its positional args, the flags set and the  *)
(* out sink; in is what the environment decides: ret, the error the        *)
(* application's function returns, and wOK, whether a checked write to     *)
(* standard output succeeds.                                               *)
(***************************************************************************)
NoEffect == [stdout |-> <<>>, stderr |-> <<>>, slot |-> <<>>, ran |-> <<>>]

WriteErr == errorsNew("write failed")

ToSink(out, chunks) ==
    [NoEffect EXCEPT !.stdout = IF out = "stdout" THEN chunks ELSE <<>>,
                     !.stderr = IF out = "stderr" THEN chunks ELSE <<>>]

\* cobraCommand.UsageString() of the command at path
UsageString(c, path) == CommandPath(c, path)

\* printUsage (appcmd.go:399-401): the usage and a newline, to stderr
printUsage(usage) == <<Chunk("usage", usage)>>

\* the function a leaf runs: the application's, or one of run's own
\* (appcmd.go:167-193, 210-219)
CallRun(f, in) ==
    IF f = "func" THEN [stdout |-> <<>>, ret |-> in.ret]
    ELSE IF f = "manpages"
    THEN [stdout |-> <<>>, ret |-> IF in.wOK THEN NilErr ELSE WriteErr]
    ELSE [stdout |-> IF in.wOK THEN <<Chunk("completion", f)>> ELSE <<>>,
          ret |-> IF in.wOK THEN NilErr ELSE WriteErr]

\* a leaf closure that prints the usage of the root
leafRun_RootUsage(ctx, f, in) ==
    LET r == CallRun(f, in)
    IN  [stdout |-> r.stdout,
         stderr |-> IF errorsAs(r.ret, "invalid") # <<>>
                    THEN printUsage(UsageString(ctx.c, <<>>)) ELSE <<>>,
         slot |-> <<r.ret>>,
         ran |-> <<"leaf">>]

\* appcmd.go:324-333
leafRun(ctx, f, in) ==
    LET r == CallRun(f, in)
    IN  [stdout |-> r.stdout,
         stderr |-> IF errorsAs(r.ret, "invalid") # <<>>
                    THEN printUsage(UsageString(ctx.c, ctx.path)) ELSE <<>>,
         slot |-> <<r.ret>>,
         ran |-> <<"leaf">>]

\* a synthetic handler that reports the first argument only
subRun_FirstArg(ctx) ==
    [stdout |-> <<>>,
     stderr |-> printUsage(UsageString(ctx.c, ctx.path)),
     slot |-> <<IF Len(ctx.args) = 0
                THEN errorsNew("Sub-command required.")
                ELSE errorsNew("Unknown sub-command: " \o ctx.args[1])>>,
     ran |-> <<"sub">>]

\* appcmd.go:337-344
subRun(ctx) ==
    [stdout |-> <<>>,
     stderr |-> printUsage(UsageString(ctx.c, ctx.path)),
     slot |-> <<IF Len(ctx.args) = 0
                THEN errorsNew("Sub-command required.")
                ELSE errorsNew("Unknown sub-command: " \o Join(ctx.args, " "))>>,
     ran |-> <<"sub">>]

\* the checked write of appcmd.go:365-366 and 418-419
checkedWrite(text, name, in) ==
    [stdout |-> IF in.wOK THEN <<Chunk("text", text)>> ELSE <<>>,
     stderr |-> <<>>,
     slot |-> <<IF in.wOK THEN NilErr ELSE WriteErr>>,
     ran |-> <<name>>]

\* the library's help command: help for the command the args name
cobraHelpRun(ctx) ==
    LET found == Find(ctx.c, ctx.args)
    IN  IF found.err # NilErr
        THEN [ToSink(ctx.out, <<Chunk("unknown-help-topic", Join(ctx.args, " ")),
                                Chunk("usage", UsageString(ctx.c, <<>>))>>)
                  EXCEPT !.ran = <<"cobraHelp">>]
        ELSE [NoEffect EXCEPT
                 !.stdout = <<Chunk("help", CommandPath(ctx.c, found.path))>>,
                 !.ran = <<"cobraHelp">>]

\* the library's completion request command: the choices go to the out
\* sink, the directive note to the error sink
completeRun(ctx) ==
    LET choices == ToSink(ctx.out, <<Chunk("completions", Join(ctx.args, " "))>>)
    IN  [choices EXCEPT !.stderr = @ \o <<Chunk("directive", "")>>,
                        !.ran = <<"complete">>]

RECURSIVE RunClosure(_, _, _)

Both(e1, e2) ==
    [stdout |-> e1.stdout \o e2.stdout, stderr |-> e1.stderr \o e2.stderr,
     slot |-> e1.slot \o e2.slot, ran |-> e1.ran \o e2.ran]

\* a version closure without its return: the old Run runs as well
versionRun_NoReturn(chain, ctx, in) ==
    IF "version" \in ctx.set
    THEN Both(checkedWrite(Head(chain).v \o "\n", "version", in),
              RunClosure(Tail(chain), ctx, in))
    ELSE RunClosure(Tail(chain), ctx, in)

\* appcmd.go:363-370
versionRun(chain, ctx, in) ==
    IF "version" \in ctx.set
    THEN checkedWrite(Head(chain).v \o "\n", "version", in)
    ELSE RunClosure(Tail(chain), ctx, in)

\* appcmd.go:416-423
helpTreeRun(chain, ctx, in) ==
    IF "help-tree" \in ctx.set
    THEN checkedWrite(helpTreeString(CommandAt(ctx.c, ctx.path)), "helpTree", in)
    ELSE RunClosure(Tail(chain), ctx, in)

RunClosure(chain, ctx, in) ==
    IF chain = <<>> THEN NoEffect
    ELSE LET w == Head(chain)
         IN  CASE w.w = "version" -> versionRun(chain, ctx, in)
               [] w.w = "helpTree" -> helpTreeRun(chain, ctx, in)
               [] w.w = "sub" -> subRun(ctx)
               [] w.w = "leaf" -> leafRun(ctx, w.v, in)
               [] w.w = "cobraHelp" -> cobraHelpRun(ctx)
               [] w.w = "complete" -> completeRun(ctx)

(***************************************************************************)
(* run (appcmd.go:135-273).                                                *)
(***************************************************************************)
\* appcmd.go:159-196
CompletionCommand ==
    Command("completion",
            "Generate auto-completion scripts for commonly used shells", "nil",
            <<[Command("bash", "Generate auto-completion scripts for bash",
                       "bash", <<>>) EXCEPT !.Args = "NoArgs"],
              [Command("fish", "Generate auto-completion scripts for fish",
                       "fish", <<>>) EXCEPT !.Args = "NoArgs"],
              [Command("powershell", "Generate auto-completion scripts for powershell",
                       "powershell", <<>>) EXCEPT !.Args = "NoArgs"],
              [Command("zsh", "Generate auto-completion scripts for zsh",
                       "zsh", <<>>) EXCEPT !.Args = "NoArgs"]>>)

\* appcmd.go:206-220
ManpagesCommand ==
    [Command("manpages", "", "manpages", <<>>)
        EXCEPT !.Args = "ExactArgs1", !.Hidden = TRUE]

\* a build that adds the completion and manpages commands to every root
runBuild_AlwaysSynthetic(cmd) ==
    IF commandToCobra(cmd).err # NilErr THEN commandToCobra(cmd)
    ELSE [err |-> NilErr,
          cmd |-> <<AddCommand(AddCommand(commandToCobra(cmd).cmd[1],
                                          commandToCobra(CompletionCommand).cmd[1]),
                               commandToCobra(ManpagesCommand).cmd[1])>>]

\* appcmd.go:142-227: the compiled root with the completion and manpages
\* commands added when the root has sub-commands: [err, cmd]
runBuild(cmd) ==
    LET root == commandToCobra(cmd)
        shell == commandToCobra(CompletionCommand)
        manpages == commandToCobra(ManpagesCommand)
    IN  IF root.err # NilErr THEN root
        ELSE IF Len(cmd.SubCommands) = 0 THEN root
        ELSE IF shell.err # NilErr THEN shell
        ELSE IF manpages.err # NilErr THEN manpages
        ELSE [err |-> NilErr,
              cmd |-> <<AddCommand(AddCommand(root.cmd[1], shell.cmd[1]),
                                   manpages.cmd[1])>>]

\* an out sink chosen by any of the arguments
runOutSink_AnyArg(args) ==
    IF \E i \in 1..Len(args) : HasPrefix(args[i], "__complete")
    THEN "stdout" ELSE "stderr"

\* appcmd.go:236, 261-263: the out sink
runOutSink(args) ==
    IF Len(args) > 0 /\ HasPrefix(args[1], "__complete")
    THEN "stdout" ELSE "stderr"

\* a return of the slot whatever Execute returned
runReturn_SlotOnly(err, slot) == slot

\* appcmd.go:269-272
runReturn(err, slot) == IF err # NilErr THEN err ELSE slot

\* printError: the error's message, to stderr
printError(err) == <<Chunk("error", ErrorString(err))>>

(***************************************************************************)
(* The inputs of an invocation: the command tree the application declares  *)
(* and the arguments of the process.                                       *)
(***************************************************************************)
LeafShape == Command("r", "root", "func", <<>>)

\* a root with two visible leaves and a hidden one
FlatShape ==
    Command("r", " root ", "nil",
            <<Command("a", "A", "func", <<>>),
              [Command("bb", "B", "func", <<>>) EXCEPT !.Hidden = TRUE],
              Command("ccc <path>", "C", "func", <<>>)>>)

\* a root with a visible leaf, a hidden leaf and a nested parent
DeepShape ==
    Command("r", "root", "nil",
            <<Command("a", "A", "func", <<>>),
              [Command("h", "H", "func", <<>>) EXCEPT !.Hidden = TRUE],
              Command("p", "P", "nil",
                      <<Command("a", "PA", "func", <<>>),
                        Command("bb", "PB", "func", <<>>)>>)>>)

Features ==
    [Version : {"", "1.0"}, Deprecated : {"", "use x"}, Args : {"nil", "NoArgs"}]

ValidCommands ==
    {SetAt(LeafShape, <<>>, f) : f \in Features}
    \cup {SetAt(FlatShape, at, f) : f \in Features, at \in {<<>>, <<1>>}}
    \cup {SetAt(DeepShape, at, f) : f \in Features, at \in {<<>>, <<3>>}}
    \cup {SetAt(LeafShape, <<>>, [ModifyCobra |-> "func"])}
    \cup {SetAt(DeepShape, at, [ModifyCobra |-> "func"]) : at \in {<<>>, <<1>>, <<3>>}}

Defects ==
    {[Use |-> ""],
     [Long |-> "long", Short |-> ""],
     [Run |-> "func", SubCommands |-> <<Command("x", "X", "func", <<>>)>>],
     [Run |-> "nil", SubCommands |-> <<>>]}

InvalidCommands ==
    {SetAt(DeepShape, at, d) : d \in Defects, at \in {<<>>, <<1>>, <<3>>, <<3, 2>>}}

Tokens == {"a", "p", "zz", "--version", "--help-tree", "--help", "__completeNoDesc"}

SeqsUpTo(S, n) == UNION {[1..k -> S] : k \in 0..n}

ArgLists ==
    SeqsUpTo(Tokens, MaxArgs)
    \cup {<<"completion", "bash">>, <<"manpages", "dir">>,
          <<"help", "a">>, <<"help", "zz">>, <<"p", "zz", "a">>}

\* what the application's leaf function may return
LeafReturns ==
    {NilErr,
     errorsNew("failed"),
     newInvalidArgumentError(errorsNew("bad arg")),
     fmtErrorfW("ctx", newInvalidArgumentError(errorsNew("bad arg"))),
     NewError(2, "exit 2").err,
     WrapError(2, newInvalidArgumentError(errorsNew("bad arg"))).err}

\* the choices of the environment a closure chain depends on: the return
\* of the application's function, the outcome of a checked write
ReturnsOf(chain) ==
    IF \E i \in 1..Len(chain) : chain[i] = Wrapper("leaf", "func")
    THEN LeafReturns ELSE {NilErr}

WritesOf(chain) ==
    IF \E i \in 1..Len(chain) :
          chain[i].w \in {"version", "helpTree"}
          \/ (chain[i].w = "leaf" /\ chain[i].v # "func")
    THEN BOOLEAN ELSE {TRUE}

\* what the root's ModifyCobra may return
ModifyReturns(cmd) ==
    IF cmd.ModifyCobra # "nil" THEN {NilErr, errorsNew("modify failed")}
    ELSE {NilErr}

(***************************************************************************)
(* Environment containers (part_000:108-145, 304-330).  A map is a         *)
(* function from its keys to their values; a container is the map it       *)
(* holds.  Go ranges over a map in no fixed order: order is the order in   *)
(* which ForEachEnv visits the keys.                                       *)
(***************************************************************************)
EmptyMap == [k \in {} |-> ""]

MapSet(m, key, value) ==
    [k \in DOMAIN m \cup {key} |-> IF k = key THEN value ELSE m[k]]

\* newEnvContainer: the entries with an empty value are not kept
newEnvContainer(m) == [k \in {x \in DOMAIN m : m[x] # ""} |-> m[k]]

\* part_000:123-125
NewEnvContainer(m) == newEnvContainer(m)

\* EnvContainer.Env
Env(envContainer, key) ==
    IF key \in DOMAIN envContainer THEN envContainer[key] ELSE ""

\* the orders in which the keys of a map may be visited
Orders(m) ==
    {order \in [1..Cardinality(DOMAIN m) -> DOMAIN m] :
        \A i, j \in 1..Cardinality(DOMAIN m) : order[i] = order[j] => i = j}

\* EnvContainer.ForEachEnv: the (key, value) pairs the function is called with
ForEachEnv(envContainer, order) ==
    [i \in 1..Len(order) |-> <<order[i], envContainer[order[i]]>>]

\* sort.Strings: insertion of str into the sorted strs
RECURSIVE InsertString(_, _)
InsertString(strs, str) ==
    IF strs = <<>> THEN <<str>>
    ELSE IF StringLess(str, Head(strs)) THEN <<str>> \o strs
    ELSE <<Head(strs)>> \o InsertString(Tail(strs), str)

RECURSIVE SortStrings(_)
SortStrings(strs) ==
    IF strs = <<>> THEN <<>>
    ELSE InsertString(SortStrings(SubSeq(strs, 1, Len(strs) - 1)), strs[Len(strs)])

\* the strings Environ appends, in the order visited
EnvironAppend(pairs) == [i \in 1..Len(pairs) |-> pairs[i][1] \o "=" \o pairs[i][2]]

\* an Environ that returns the strings in the order visited
Environ_Unsorted(envContainer, order) ==
    EnvironAppend(ForEachEnv(envContainer, order))

\* part_000:309-317
Environ(envContainer, order) ==
    SortStrings(EnvironAppend(ForEachEnv(envContainer, order)))

RECURSIVE EnvironMapLoop(_, _)
EnvironMapLoop(pairs, m) ==
    IF pairs = <<>> THEN m
    ELSE EnvironMapLoop(Tail(pairs),
                        IF Head(pairs)[2] # ""
                        THEN MapSet(m, Head(pairs)[1], Head(pairs)[2]) ELSE m)

\* part_000:321-330
EnvironMap(envContainer, order) ==
    EnvironMapLoop(ForEachEnv(envContainer, order), EmptyMap)

\* maps.Copy(dst, src): dst after the copy
mapsCopy(dst, src) ==
    [k \in DOMAIN dst \cup DOMAIN src |-> IF k \in DOMAIN src THEN src[k] ELSE dst[k]]

\* overrides that give way to the values of the base
NewEnvContainerWithOverrides_BaseWins(envContainer, overrides, order) ==
    [base |-> envContainer,
     overrides |-> overrides,
     new |-> newEnvContainer(mapsCopy(overrides, EnvironMap(envContainer, order)))]

\* part_000:141-145: the base and the overrides afterwards, and the new
\* container
NewEnvContainerWithOverrides(envContainer, overrides, order) ==
    [base |-> envContainer,
     overrides |-> overrides,
     new |-> newEnvContainer(mapsCopy(EnvironMap(envContainer, order), overrides))]

EnvKeys == {"A", "A1", "B"}

EnvValues == {""} \cup {SubSeq("123456789", v, v) : v \in 1..MaxEnvValue}

EnvMaps == UNION {[D -> EnvValues] : D \in SUBSET EnvKeys}

(***************************************************************************)
(* Name containers (part_001:87-192).                                      *)
(***************************************************************************)
RECURSIVE ToUpper(_)
ToUpper(str) ==
    IF str = "" THEN ""
    ELSE (IF IndexByte(Lower, SubSeq(str, 1, 1), 1) > 0
          THEN SubSeq(Upper, IndexByte(Lower, SubSeq(str, 1, 1), 1),
                      IndexByte(Lower, SubSeq(str, 1, 1), 1))
          ELSE SubSeq(str, 1, 1))
         \o ToUpper(SubSeq(str, 2, Len(str)))

\* strings.ReplaceAll for a one-byte old
RECURSIVE ReplaceAll(_, _, _)
ReplaceAll(str, old, new) ==
    IF str = "" THEN ""
    ELSE (IF SubSeq(str, 1, 1) = old THEN new ELSE SubSeq(str, 1, 1))
         \o ReplaceAll(SubSeq(str, 2, Len(str)), old, new)

\* a prefix that keeps the dashes
getAppNameEnvPrefix_KeepDash(name) == ToUpper(name) \o "_"

\* part_001:179-181
getAppNameEnvPrefix(name) == ToUpper(ReplaceAll(name, "-", "_")) \o "_"

Digits == "0123456789"

IsNameByte(c) ==
    \/ Contains(Lower, c)
    \/ Contains(Upper, c)
    \/ Contains(Digits, c)
    \/ c = "-"
    \/ c = "_"

\* part_001:183-192
validateAppName(name) ==
    IF name = "" THEN errorsNew("empty application name")
    ELSE IF \E i \in 1..Len(name) : ~IsNameByte(SubSeq(name, i, i))
    THEN errorsNew("invalid application name: " \o name)
    ELSE NilErr

\* strconv.ParseUint(s, 10, 16): [n, err]
RECURSIVE parseDigits(_, _)
parseDigits(str, n) ==
    IF str = "" THEN [n |-> n, err |-> ""]
    ELSE IF ~Contains(Digits, SubSeq(str, 1, 1)) THEN [n |-> 0, err |-> "invalid syntax"]
    ELSE IF 10 * n + IndexByte(Digits, SubSeq(str, 1, 1), 1) - 1 >= 2^16
    THEN [n |-> 2^16 - 1, err |-> "value out of range"]
    ELSE parseDigits(SubSeq(str, 2, Len(str)),
                     10 * n + IndexByte(Digits, SubSeq(str, 1, 1), 1) - 1)

ParseUint(str) ==
    IF str = "" THEN [n |-> 0, err |-> "invalid syntax"] ELSE parseDigits(str, 0)

\* part_001:170-176
parsePort(portString, parsed) ==
    IF parsed.err # ""
    THEN [value |-> 0,
          err |-> fmtErrorfW("could not parse port \"" \o portString \o "\" to uint16",
                             errorsNew("strconv.ParseUint: parsing \"" \o portString
                                       \o "\": " \o parsed.err))]
    ELSE [value |-> parsed.n, err |-> NilErr]

\* part_001:164-177: [value, err]
getPort(env, name) ==
    IF Env(env, getAppNameEnvPrefix(name) \o "PORT") # ""
    THEN parsePort(Env(env, getAppNameEnvPrefix(name) \o "PORT"),
                   ParseUint(Env(env, getAppNameEnvPrefix(name) \o "PORT")))
    ELSE IF Env(env, "PORT") = "" THEN [value |-> 0, err |-> NilErr]
    ELSE parsePort(Env(env, "PORT"), ParseUint(Env(env, "PORT")))

\* part_001:153-162: base is what getBaseDirPath returns, [path, err]
getDirPath(env, name, envSuffix, base) ==
    IF Env(env, getAppNameEnvPrefix(name) \o envSuffix) # ""
    THEN Env(env, getAppNameEnvPrefix(name) \o envSuffix)
    ELSE IF base.err = NilErr THEN base.path \o "/" \o name
    ELSE ""

\* the accessors and the suffix of the variable each consults
Fields == {"port", "configDirPath", "cacheDirPath", "dataDirPath"}

EnvSuffix(field) ==
    CASE field = "port" -> "PORT"
      [] field = "configDirPath" -> "CONFIG_DIR"
      [] field = "cacheDirPath" -> "CACHE_DIR"
      [] field = "dataDirPath" -> "DATA_DIR"

\* what app.ConfigDirPath, app.CacheDirPath and app.DataDirPath may return
BaseDirPaths == {[path |-> "/base", err |-> NilErr],
                 [path |-> "", err |-> errorsNew("no home directory")]}

\* setPort, setConfigDirPath, setCacheDirPath, setDataDirPath
\* (part_001:137-151): the [value, err] the computation produces
Computed(env, name, field, base) ==
    IF field = "port" THEN getPort(env, name)
    ELSE [value |-> getDirPath(env, name, EnvSuffix(field), base), err |-> NilErr]

\* a sync.Once that never counts as done
onceDone_Never(done) == FALSE

\* sync.Once: o.done.Load() != 0
onceDone(done) == done = 1

\* the zero value of a field of the struct (part_001:87-101)
ZeroField(field) ==
    [value |-> IF field = "port" THEN 0 ELSE "", err |-> NilErr, done |-> 0, m |-> 0]

Goroutines == 1..NumGoroutines

IdleGoroutine == [pc |-> "idle", field |-> "", ret |-> <<>>]

IdleName ==
    /\ appName = ""
    /\ nameErr = <<>>
    /\ prefixOut = <<>>
    /\ nameEnv = EmptyMap
    /\ nc = [f \in Fields |-> ZeroField(f)]
    /\ runs = [f \in Fields |-> <<>>]
    /\ g = [i \in Goroutines |-> IdleGoroutine]

IdleEnv ==
    /\ envInput = EmptyMap
    /\ envBase = EmptyMap
    /\ envOver = <<>>
    /\ envNew = <<>>
    /\ envOut = <<>>

IdleHelp ==
    /\ htTree = <<>>
    /\ htOut = <<>>

IdleLib == IdleEnv /\ IdleName /\ IdleHelp

(***************************************************************************)
(* Specification Spec: one invocation of app.Main with the run function    *)
(* of appcmd (app.Main -> app.Run -> run -> Execute -> the closure).       *)
(***************************************************************************)
IdleErr ==
    /\ ev = NilErr
    /\ ec = <<>>
    /\ ecall = <<>>
    /\ epanic = FALSE

Fresh ==
    /\ compiled = <<>>
    /\ outSink = ""
    /\ errSink = ""
    /\ target = <<>>
    /\ call = <<>>
    /\ execErr = NilErr
    /\ runErr = NilErr
    /\ runErrWrites = <<>>
    /\ ran = <<>>
    /\ stdout = <<>>
    /\ stderr = <<>>
    /\ result = <<>>
    /\ appResult = <<>>
    /\ osExit = <<>>

Init ==
    /\ IdleErr
    /\ IdleLib
    /\ rootCommand \in ValidCommands \cup InvalidCommands
    /\ osArgs \in {<<>>} \cup {<<"prog">> \o l : l \in ArgLists}
    /\ pc = "run"
    /\ Fresh

\* run up to Execute (appcmd.go:140-267): build, add the completion and
\* manpages commands, apply the root's ModifyCobra, bind the streams and
\* the arguments.  app.Args(container)[1:] panics without a first argument.
runSetup ==
    /\ pc = "run"
    /\ \E built \in {runBuild(rootCommand)} :
           IF built.err # NilErr
           THEN /\ result' = <<built.err>>
                /\ pc' = "appRun"
                /\ UNCHANGED <<compiled, outSink, errSink>>
           ELSE \E modifyErr \in ModifyReturns(rootCommand) :
                   IF modifyErr # NilErr
                   THEN /\ result' = <<modifyErr>>
                        /\ pc' = "appRun"
                        /\ UNCHANGED <<compiled, outSink, errSink>>
                   ELSE IF Len(osArgs) < 1
                   THEN /\ pc' = "panic"
                        /\ UNCHANGED <<compiled, outSink, errSink, result>>
                   ELSE /\ compiled' =
                              <<[built.cmd[1] EXCEPT
                                    !.modified = (rootCommand.ModifyCobra # "nil")]>>
                        /\ outSink' = runOutSink(Tail(osArgs))
                        /\ errSink' = "stderr"
                        /\ pc' = "execute"
                        /\ UNCHANGED result
    /\ UNCHANGED <<rootCommand, osArgs, target, call, execErr, runErr,
                   runErrWrites, ran, stdout, stderr, appResult, osExit>>
    /\ UNCHANGED <<errVars, libVars>>

\* cobraCommand.Execute() up to the call of the found command's Run
cobraExecute ==
    /\ pc = "execute"
    /\ \E e \in {ExecuteC(compiled[1], Tail(osArgs))} :
       \E out \in {ToSink(outSink, e.out)}, err \in {ToSink(errSink, e.errOut)} :
           /\ compiled' = <<e.c>>
           /\ stdout' = stdout \o err.stdout \o out.stdout \o e.help
           /\ stderr' = stderr \o err.stderr \o out.stderr
           /\ execErr' = e.err
           /\ call' = e.call
           /\ target' = <<[path |-> e.path, args |-> e.args]>>
           /\ pc' = IF e.call # <<>> THEN "call" ELSE "return"
    /\ UNCHANGED <<rootCommand, osArgs, outSink, errSink, runErr, runErrWrites,
                   ran, result, appResult, osExit>>
    /\ UNCHANGED <<errVars, libVars>>

\* the library calls cmd.Run(cmd, args): the closure chain of the command
commandRun ==
    /\ pc = "call"
    /\ \E ret \in ReturnsOf(CommandAt(compiled[1], call[1].path).Run),
          wOK \in WritesOf(CommandAt(compiled[1], call[1].path).Run) :
          \E eff \in {RunClosure(CommandAt(compiled[1], call[1].path).Run,
                                  [c |-> compiled[1], path |-> call[1].path,
                                   args |-> call[1].args, set |-> call[1].set,
                                   out |-> outSink],
                                  [ret |-> ret, wOK |-> wOK])} :
              /\ stdout' = stdout \o eff.stdout
              /\ stderr' = stderr \o eff.stderr
              /\ runErrWrites' = runErrWrites \o eff.slot
              /\ runErr' = IF eff.slot # <<>> THEN eff.slot[Len(eff.slot)] ELSE runErr
              /\ ran' = ran \o eff.ran
    /\ pc' = "return"
    /\ UNCHANGED <<rootCommand, osArgs, compiled, outSink, errSink, target, call, execErr,
                   result, appResult, osExit>>
    /\ UNCHANGED <<errVars, libVars>>

\* appcmd.go:269-272
runReturn_ ==
    /\ pc = "return"
    /\ result' = <<runReturn(execErr, runErr)>>
    /\ pc' = "appRun"
    /\ UNCHANGED <<rootCommand, osArgs, compiled, outSink, errSink, target, call, execErr,
                   runErr, runErrWrites, ran, stdout, stderr, appResult, osExit>>
    /\ UNCHANGED <<errVars, libVars>>

\* app.Run after f returned
appRun ==
    /\ pc = "appRun"
    /\ stderr' = IF result[1] # NilErr THEN stderr \o printError(result[1]) ELSE stderr
    /\ appResult' = <<result[1]>>
    /\ pc' = "main"
    /\ UNCHANGED <<rootCommand, osArgs, compiled, outSink, errSink, target, call, execErr,
                   runErr, runErrWrites, ran, stdout, result, osExit>>
    /\ UNCHANGED <<errVars, libVars>>

\* app.Main: os.Exit(GetExitCode(Run(...)))
appMain ==
    /\ pc = "main"
    /\ osExit' = <<GetExitCode(appResult[1])>>
    /\ pc' = "done"
    /\ UNCHANGED <<rootCommand, osArgs, compiled, outSink, errSink, target, call, execErr,
                   runErr, runErrWrites, ran, stdout, stderr, result, appResult>>
    /\ UNCHANGED <<errVars, libVars>>

Next ==
    \/ runSetup
    \/ cobraExecute
    \/ commandRun
    \/ runReturn_
    \/ appRun
    \/ appMain

Spec == Init /\ [][Next]_vars

(***************************************************************************)
(* Specification SpecErr: a caller builds error values with the            *)
(* constructors and asks for their exit code.                              *)
(***************************************************************************)
IdleCmd ==
    /\ rootCommand = LeafShape
    /\ osArgs = <<>>
    /\ pc = "idle"
    /\ Fresh

Codes == 0..MaxCode

NoCall == <<>>

InitErr ==
    /\ ev = NilErr
    /\ ec = <<>>
    /\ ecall = NoCall
    /\ epanic = FALSE
    /\ IdleCmd
    /\ IdleLib

\* A constructor call: a contract violation ends the caller, otherwise the
\* caller holds the new error.
Construct(fn, exitCode, r) ==
    /\ ecall' = <<[fn |-> fn, code |-> exitCode]>>
    /\ epanic' = r.panic
    /\ ev' = IF r.panic THEN ev ELSE r.err
    /\ UNCHANGED ec
    /\ UNCHANGED <<cmdVars, libVars>>

CallErrorsNew ==
    /\ ~epanic
    /\ ev' = errorsNew("plain")
    /\ UNCHANGED <<ec, ecall, epanic>>
    /\ UNCHANGED <<cmdVars, libVars>>

CallNewError ==
    /\ ~epanic
    /\ \E c \in Codes : Construct("NewError", c, NewError(c, "m"))

CallNewErrorf ==
    /\ ~epanic
    /\ \E c \in Codes : Construct("NewErrorf", c, NewErrorf(c, "f"))

CallWrapError ==
    /\ ~epanic
    /\ ev # NilErr
    /\ Len(ev) < MaxChain
    /\ \E c \in Codes : Construct("WrapError", c, WrapError(c, ev))

CallFmtErrorfW ==
    /\ ~epanic
    /\ ev # NilErr
    /\ Len(ev) < MaxChain
    /\ ev' = fmtErrorfW("ctx", ev)
    /\ UNCHANGED <<ec, ecall, epanic>>
    /\ UNCHANGED <<cmdVars, libVars>>

CallGetExitCode ==
    /\ ~epanic
    /\ ec' = <<[of |-> ev, code |-> GetExitCode(ev)]>>
    /\ UNCHANGED <<ev, ecall, epanic>>
    /\ UNCHANGED <<cmdVars, libVars>>

NextErr ==
    \/ CallErrorsNew
    \/ CallNewError
    \/ CallNewErrorf
    \/ CallWrapError
    \/ CallFmtErrorfW
    \/ CallGetExitCode

SpecErr == InitErr /\ [][NextErr]_vars

(***************************************************************************)
(* Specification SpecEnv: an environment container is built from a map,    *)
(* a second one is layered over it, and both are looked up and enumerated. *)
(***************************************************************************)
InitEnv ==
    /\ envInput \in EnvMaps
    /\ envBase = NewEnvContainer(envInput)
    /\ envOver = <<>>
    /\ envNew = <<>>
    /\ envOut = <<>>
    /\ IdleErr
    /\ IdleCmd
    /\ IdleName
    /\ IdleHelp

Containers ==
    {[of |-> "base", c |-> envBase]}
    \cup {[of |-> "new", c |-> envNew[i]] : i \in 1..Len(envNew)}

CallNewEnvContainerWithOverrides ==
    /\ envNew = <<>>
    /\ \E overrides \in EnvMaps, order \in Orders(envBase) :
          \E r \in {NewEnvContainerWithOverrides(envBase, overrides, order)} :
             /\ envBase' = r.base
             /\ envOver' = <<r.overrides>>
             /\ envNew' = <<r.new>>
    /\ UNCHANGED <<envInput, envOut>>
    /\ UNCHANGED <<errVars, cmdVars, nameVars, helpVars>>

CallEnv ==
    /\ \E e \in Containers, key \in EnvKeys :
          envOut' = <<[op |-> "Env", of |-> e.of, key |-> key,
                       result |-> Env(e.c, key)]>>
    /\ UNCHANGED <<envInput, envBase, envOver, envNew>>
    /\ UNCHANGED <<errVars, cmdVars, nameVars, helpVars>>

CallForEachEnv ==
    /\ \E e \in Containers :
          \E order \in Orders(e.c) :
             envOut' = <<[op |-> "ForEachEnv", of |-> e.of, key |-> "",
                          result |-> ForEachEnv(e.c, order)]>>
    /\ UNCHANGED <<envInput, envBase, envOver, envNew>>
    /\ UNCHANGED <<errVars, cmdVars, nameVars, helpVars>>

CallEnviron ==
    /\ \E e \in Containers :
          \E order \in Orders(e.c) :
             envOut' = <<[op |-> "Environ", of |-> e.of, key |-> "",
                          result |-> Environ(e.c, order)]>>
    /\ UNCHANGED <<envInput, envBase, envOver, envNew>>
    /\ UNCHANGED <<errVars, cmdVars, nameVars, helpVars>>

CallEnvironMap ==
    /\ \E e \in Containers :
          \E order \in Orders(e.c) :
             envOut' = <<[op |-> "EnvironMap", of |-> e.of, key |-> "",
                          result |-> EnvironMap(e.c, order)]>>
    /\ UNCHANGED <<envInput, envBase, envOver, envNew>>
    /\ UNCHANGED <<errVars, cmdVars, nameVars, helpVars>>

NextEnv ==
    \/ CallNewEnvContainerWithOverrides
    \/ CallEnv
    \/ CallForEachEnv
    \/ CallEnviron
    \/ CallEnvironMap

SpecEnv == InitEnv /\ [][NextEnv]_vars

(***************************************************************************)
(* Specification SpecName: goroutines call the accessors of one name       *)
(* container.  Each accessor is c.<field>Once.Do(c.set<Field>) followed by  *)
(* the read of the field; sync.Once.Do is the load of done, and when it is *)
(* zero doSlow: lock m, load done again, run f, store done, unlock m.      *)
(***************************************************************************)
NameEnvs ==
    {EmptyMap,
     "PORT" :> "80",
     "A_B_PORT" :> "x",
     "A_B_PORT" :> "81" @@ "PORT" :> "80",
     "PORT" :> "65536",
     "A_B_CONFIG_DIR" :> "/c" @@ "PORT" :> "65535"}

InitName ==
    /\ appName = "a-b"
    /\ nameErr = <<validateAppName(appName)>>
    /\ prefixOut = <<>>
    /\ nameEnv \in {NewEnvContainer(m) : m \in NameEnvs}
    /\ nc = [f \in Fields |-> ZeroField(f)]
    /\ runs = [f \in Fields |-> <<>>]
    /\ g = [i \in Goroutines |-> IdleGoroutine]
    /\ IdleErr
    /\ IdleCmd
    /\ IdleEnv
    /\ IdleHelp

\* a goroutine calls Port, ConfigDirPath, CacheDirPath or DataDirPath
CallAccessor ==
    /\ \E i \in Goroutines, f \in Fields :
          /\ g[i].pc = "idle"
          /\ g' = [g EXCEPT ![i] = [pc |-> "Do", field |-> f, ret |-> <<>>]]
    /\ UNCHANGED <<appName, nameErr, prefixOut, nameEnv, nc, runs>>
    /\ UNCHANGED <<errVars, cmdVars, envVars, helpVars>>

\* Once.Do: if o.done.Load() == 0 { o.doSlow(f) }
OnceDo ==
    /\ \E i \in Goroutines :
          /\ g[i].pc = "Do"
          /\ g' = [g EXCEPT ![i].pc = IF onceDone(nc[g[i].field].done)
                                      THEN "return" ELSE "Lock"]
    /\ UNCHANGED <<appName, nameErr, prefixOut, nameEnv, nc, runs>>
    /\ UNCHANGED <<errVars, cmdVars, envVars, helpVars>>

\* doSlow: o.m.Lock()
OnceLock ==
    /\ \E i \in Goroutines :
          /\ g[i].pc = "Lock"
          /\ nc[g[i].field].m = 0
          /\ nc' = [nc EXCEPT ![g[i].field].m = i]
          /\ g' = [g EXCEPT ![i].pc = "doSlow"]
    /\ UNCHANGED <<appName, nameErr, prefixOut, nameEnv, runs>>
    /\ UNCHANGED <<errVars, cmdVars, envVars, helpVars>>

\* doSlow: if o.done.Load() == 0 { defer o.done.Store(1); f() }
OnceDoSlow ==
    /\ \E i \in Goroutines :
          /\ g[i].pc = "doSlow"
          /\ g' = [g EXCEPT ![i].pc = IF onceDone(nc[g[i].field].done)
                                      THEN "Unlock" ELSE "f"]
    /\ UNCHANGED <<appName, nameErr, prefixOut, nameEnv, nc, runs>>
    /\ UNCHANGED <<errVars, cmdVars, envVars, helpVars>>

\* f: the computation, and the assignment of the value to the field
SetField ==
    /\ \E i \in Goroutines, base \in BaseDirPaths :
          /\ g[i].pc = "f"
          /\ \E r \in {Computed(nameEnv, appName, g[i].field, base)} :
                /\ runs' = [runs EXCEPT ![g[i].field] = Append(@, r)]
                /\ nc' = [nc EXCEPT ![g[i].field].value = r.value]
          /\ g' = [g EXCEPT ![i].pc = IF g[i].field = "port" THEN "portErr" ELSE "Store"]
    /\ UNCHANGED <<appName, nameErr, prefixOut, nameEnv>>
    /\ UNCHANGED <<errVars, cmdVars, envVars, helpVars>>

\* setPort: the assignment of c.portErr
SetPortErr ==
    /\ \E i \in Goroutines :
          /\ g[i].pc = "portErr"
          /\ nc' = [nc EXCEPT !["port"].err = runs["port"][Len(runs["port"])].err]
          /\ g' = [g EXCEPT ![i].pc = "Store"]
    /\ UNCHANGED <<appName, nameErr, prefixOut, nameEnv, runs>>
    /\ UNCHANGED <<errVars, cmdVars, envVars, helpVars>>

\* doSlow: the deferred o.done.Store(1)
OnceStore ==
    /\ \E i \in Goroutines :
          /\ g[i].pc = "Store"
          /\ nc' = [nc EXCEPT ![g[i].field].done = 1]
          /\ g' = [g EXCEPT ![i].pc = "Unlock"]
    /\ UNCHANGED <<appName, nameErr, prefixOut, nameEnv, runs>>
    /\ UNCHANGED <<errVars, cmdVars, envVars, helpVars>>

\* doSlow: the deferred o.m.Unlock()
OnceUnlock ==
    /\ \E i \in Goroutines :
          /\ g[i].pc = "Unlock"
          /\ nc' = [nc EXCEPT ![g[i].field].m = 0]
          /\ g' = [g EXCEPT ![i].pc = "return"]
    /\ UNCHANGED <<appName, nameErr, prefixOut, nameEnv, runs>>
    /\ UNCHANGED <<errVars, cmdVars, envVars, helpVars>>

\* the accessor returns the field (Port: c.port, c.portErr)
AccessorReturn ==
    /\ \E i \in Goroutines :
          /\ g[i].pc = "return"
          /\ g' = [g EXCEPT ![i].pc = "done",
                            ![i].ret = <<[value |-> nc[g[i].field].value,
                                          err |-> nc[g[i].field].err]>>]
    /\ UNCHANGED <<appName, nameErr, prefixOut, nameEnv, nc, runs>>
    /\ UNCHANGED <<errVars, cmdVars, envVars, helpVars>>

NextName ==
    \/ CallAccessor
    \/ OnceDo
    \/ OnceLock
    \/ OnceDoSlow
    \/ SetField
    \/ SetPortErr
    \/ OnceStore
    \/ OnceUnlock
    \/ AccessorReturn

SpecName == InitName /\ [][NextName]_vars

(***************************************************************************)
(* Specification SpecPrefix: newNameContainer validates an application     *)
(* name, and an accessor of the container it returns computes the prefix   *)
(* of the name's environment variables.                                    *)
(***************************************************************************)
NameBytes == {"a", "B", "0", "-", "_", "."}

RECURSIVE StringsUpTo(_)
StringsUpTo(n) ==
    IF n = 0 THEN {""}
    ELSE StringsUpTo(n - 1)
         \cup {str \o c : str \in StringsUpTo(n - 1), c \in NameBytes}

InitPrefix ==
    /\ appName \in StringsUpTo(MaxNameLen)
    /\ nameErr = <<>>
    /\ prefixOut = <<>>
    /\ nameEnv = EmptyMap
    /\ nc = [f \in Fields |-> ZeroField(f)]
    /\ runs = [f \in Fields |-> <<>>]
    /\ g = [i \in Goroutines |-> IdleGoroutine]
    /\ IdleErr
    /\ IdleCmd
    /\ IdleEnv
    /\ IdleHelp

\* part_001:103-111
CallNewNameContainer ==
    /\ nameErr = <<>>
    /\ nameErr' = <<validateAppName(appName)>>
    /\ UNCHANGED <<appName, prefixOut, nameEnv, nc, runs, g>>
    /\ UNCHANGED <<errVars, cmdVars, envVars, helpVars>>

\* getAppNameEnvPrefix(c.appName) in getDirPath and getPort
CallGetAppNameEnvPrefix ==
    /\ nameErr = <<NilErr>>
    /\ prefixOut = <<>>
    /\ prefixOut' = <<getAppNameEnvPrefix(appName)>>
    /\ UNCHANGED <<appName, nameErr, nameEnv, nc, runs, g>>
    /\ UNCHANGED <<errVars, cmdVars, envVars, helpVars>>

NextPrefix ==
    \/ CallNewNameContainer
    \/ CallGetAppNameEnvPrefix

SpecPrefix == InitPrefix /\ [][NextPrefix]_vars

(***************************************************************************)
(* Specification SpecHelpTree: helpTreeString on a compiled tree of five   *)
(* commands, 1 the root, 2 and 3 its children, 4 under 2 and 5 under 4,    *)
(* with any names and any hidden flags.                                    *)
(***************************************************************************)
TreeNames == {Repeat("n", width) : width \in 1..MaxNameWidth}

TreeCommand(name, hidden, commands) ==
    [CobraCommand(name, <<>>, "S", "nil", hidden, <<>>, FALSE)
        EXCEPT !.commands = commands]

HelpTree(names, hidden) ==
    TreeCommand(names[1], hidden[1],
        <<TreeCommand(names[2], hidden[2],
              <<TreeCommand(names[4], hidden[4],
                    <<TreeCommand(names[5], hidden[5], <<>>)>>)>>),
          TreeCommand(names[3], hidden[3], <<>>)>>)

InitHelpTree ==
    /\ htTree \in {<<HelpTree(names, hidden)>> :
                      names \in [1..5 -> TreeNames], hidden \in [1..5 -> BOOLEAN]}
    /\ htOut = <<>>
    /\ IdleErr
    /\ IdleCmd
    /\ IdleEnv
    /\ IdleName

\* helpTreeString(cmd) (appcmd.go:426-430)
CallHelpTreeString ==
    /\ htOut = <<>>
    /\ htOut' = <<[maxPadding |-> maxPaddingRec(htTree[1], 0),
                   lines |-> helpTreeLines(htTree[1]),
                   string |-> helpTreeString(htTree[1])]>>
    /\ UNCHANGED htTree
    /\ UNCHANGED <<errVars, cmdVars, envVars, nameVars>>

NextHelpTree == CallHelpTreeString

SpecHelpTree == InitHelpTree /\ [][NextHelpTree]_vars





(***************************************************************************)
(* C1 (as stated): GetExitCode returns 0 for nil, c for every error that   *)
(* is or wraps at any depth an exit-coded error built with code c, and 1   *)
(* for every other non-nil error.                                          *)
(***************************************************************************)
AppLayers(err) == {i \in 1..Len(err) : err[i].k = "app"}

C1_Original ==
    \A r \in {ec[i] : i \in 1..Len(ec)} :
        /\ r.of = NilErr => r.code = 0
        /\ \A i \in AppLayers(r.of) : r.code = r.of[i].code
        /\ (r.of # NilErr /\ AppLayers(r.of) = {}) => r.code = 1

(***************************************************************************)
(* C1 (amended): GetExitCode returns 0 for nil, the code of the outermost  *)
(* exit-coded error of the chain when the chain has one, at any depth,     *)
(* and 1 for every other non-nil error.                                    *)
(***************************************************************************)
C1_ExitCodeOfOutermost ==
    \A r \in {ec[i] : i \in 1..Len(ec)} :
        /\ r.of = NilErr => r.code = 0
        /\ \A i \in AppLayers(r.of) :
               (\A j \in AppLayers(r.of) : i <= j) => r.code = r.of[i].code
        /\ (r.of # NilErr /\ AppLayers(r.of) = {}) => r.code = 1

\* GetExitCode was asked about an exit-coded error wrapped two layers deep.
C1_Witness ==
    /\ ec # <<>>
    /\ Len(ec[1].of) = 3
    /\ AppLayers(ec[1].of) = {2}
    /\ ec[1].code = 2

(***************************************************************************)
(* C2: NewError, NewErrorf and WrapError fail with a contract violation    *)
(* when called with exit code 0, so no exit-coded error with code 0        *)
(* exists and GetExitCode never returns 0 for a non-nil error.             *)
(***************************************************************************)
C2_ZeroCodeRejected ==
    /\ (ecall # <<>> /\ ecall[1].code = 0) <=> epanic
    /\ \A i \in AppLayers(ev) : ev[i].code # 0
    /\ \A r \in {ec[i] : i \in 1..Len(ec)} : r.of # NilErr => r.code # 0

\* WrapError was called with exit code 0 on an existing error and failed.
C2_Witness ==
    /\ epanic
    /\ ecall = <<[fn |-> "WrapError", code |-> 0]>>
    /\ ev # NilErr

(***************************************************************************)
(* Properties of one invocation (specification Spec).                      *)
(***************************************************************************)
Elems(s) == {s[i] : i \in 1..Len(s)}

\* run has returned to app.Run
RunReturned == pc \in {"appRun", "main", "done"}

\* cobraCommand.Execute() has returned
ExecuteReturned == compiled # <<>> /\ pc \in {"return", "appRun", "main", "done"}

RECURSIVE Nodes(_)
Nodes(cmd) ==
    {cmd} \cup UNION {Nodes(cmd.SubCommands[i]) : i \in 1..Len(cmd.SubCommands)}

\* the four ways a node is invalid
Defective(n) ==
    \/ n.Use = ""
    \/ n.Long # "" /\ n.Short = ""
    \/ n.Run # "nil" /\ n.SubCommands # <<>>
    \/ n.Run = "nil" /\ n.SubCommands = <<>>

HasDefect(cmd) == \E n \in Nodes(cmd) : Defective(n)

\* the tree run compiles: the declared one and, under a root with
\* sub-commands, the completion and manpages commands
Declared ==
    IF Len(rootCommand.SubCommands) > 0
    THEN [rootCommand EXCEPT !.SubCommands = @ \o <<CompletionCommand, ManpagesCommand>>]
    ELSE rootCommand

RECURSIVE IsDeclaredPath(_, _)
IsDeclaredPath(cmd, path) ==
    \/ path = <<>>
    \/ /\ Head(path) \in 1..Len(cmd.SubCommands)
       /\ IsDeclaredPath(cmd.SubCommands[Head(path)], Tail(path))

RECURSIVE SourceAt(_, _)
SourceAt(cmd, path) ==
    IF path = <<>> THEN cmd ELSE SourceAt(cmd.SubCommands[Head(path)], Tail(path))

IsFlag(str) == Len(str) >= 1 /\ SubSeq(str, 1, 1) = "-"

IsUsage(chunk) == chunk.t = "usage"

NotError(chunk) == chunk.t # "error"

UsageOf(path) == Chunk("usage", CommandPath(compiled[1], path))

\* C3: a tree with an invalid node anywhere makes Run return a build error:
\* nothing is compiled or executed, the last-error slot is never written,
\* nothing is written to standard output, and the error is what app.Run
\* returns.
C3_InvalidTreeNotExecuted ==
    (HasDefect(rootCommand) /\ pc # "run") =>
        /\ RunReturned
        /\ result # <<>> /\ result[1] # NilErr
        /\ compiled = <<>> /\ target = <<>> /\ call = <<>>
        /\ ran = <<>> /\ runErrWrites = <<>> /\ runErr = NilErr
        /\ stdout = <<>>
        /\ pc \in {"main", "done"} => appResult = result

\* C3 witness: the invalid node is a grandchild of the root and the
\* arguments name it
C3_Witness ==
    /\ pc = "done"
    /\ Len(rootCommand.SubCommands) = 3
    /\ Len(rootCommand.SubCommands[3].SubCommands) = 2
    /\ rootCommand.SubCommands[3].SubCommands[2].Use = ""
    /\ ~Defective(rootCommand) /\ ~Defective(rootCommand.SubCommands[3])
    /\ osArgs = <<"prog", "p", "a">>
    /\ result = <<errorsNew("must set Command.Use")>>
    /\ ran = <<>>

\* the command Find found is a parent without an Args validator, and its
\* arguments hold no flag
ParentTargeted ==
    /\ ExecuteReturned /\ RunReturned
    /\ target # <<>>
    /\ IsDeclaredPath(Declared, target[1].path)
    /\ Len(SourceAt(Declared, target[1].path).SubCommands) > 0
    /\ SourceAt(Declared, target[1].path).Args = "nil"
    /\ \A i \in 1..Len(target[1].args) : ~IsFlag(target[1].args[i])

\* C4 as stated: any parent, root or nested, writes its usage to stderr and
\* fails with "Sub-command required." on no arguments and with "Unknown
\* sub-command: " and the space-joined arguments on unmatched ones.
C4_Original ==
    ParentTargeted =>
        /\ UsageOf(target[1].path) \in Elems(stderr)
        /\ result[1] = IF target[1].args = <<>>
                       THEN errorsNew("Sub-command required.")
                       ELSE errorsNew("Unknown sub-command: " \o Join(target[1].args, " "))

\* C4, what the code does: a parent invoked without arguments, and a
\* nested parent invoked with unmatched arguments, run the synthetic
\* handler: usage on stderr and the "Sub-command required." / "Unknown
\* sub-command: ..." error.  At the root the library rejects an unmatched
\* argument first: Run returns its unknown command error, no handler runs
\* and no usage is written.
C4_SubCommandErrors ==
    ParentTargeted =>
        IF target[1].args = <<>>
        THEN /\ ran = <<"sub">>
             /\ SelectSeq(stderr, IsUsage) = <<UsageOf(target[1].path)>>
             /\ result[1] = errorsNew("Sub-command required.")
        ELSE IF target[1].path # <<>>
        THEN /\ ran = <<"sub">>
             /\ SelectSeq(stderr, IsUsage) = <<UsageOf(target[1].path)>>
             /\ result[1] = errorsNew("Unknown sub-command: "
                                      \o Join(target[1].args, " "))
        ELSE /\ ran = <<>>
             /\ SelectSeq(stderr, IsUsage) = <<>>
             /\ SelectSeq(stdout, IsUsage) = <<>>
             /\ Len(result[1]) = 1 /\ result[1][1].k = "msg"
             /\ HasPrefix(result[1][1].m,
                          "unknown command \"" \o target[1].args[1]
                          \o "\" for \"" \o rootCommand.Use \o "\"")
             /\ result[1] = execErr

\* C4: a nested parent with two unmatched arguments ran the handler
C4_Witness ==
    /\ pc = "done"
    /\ target = <<[path |-> <<3>>, args |-> <<"zz", "a">>]>>
    /\ ran = <<"sub">>
    /\ Chunk("usage", "r p") \in Elems(stderr)
    /\ result = <<errorsNew("Unknown sub-command: zz a")>>

IsInvalidArgument(err) == \E i \in 1..Len(err) : err[i].k = "invalid"

\* C5: when a leaf action ran, the usage of that leaf is on stderr exactly
\* once if the error it returned has an invalid-argument error in its
\* chain, and no usage is written otherwise; the error the action returned
\* is the result of Run.
C5_LeafUsageOnInvalidArgument ==
    (pc \in {"return", "appRun", "main", "done"} /\ ran = <<"leaf">>) =>
        /\ Len(runErrWrites) = 1
        /\ SelectSeq(stdout, IsUsage) = <<>>
        /\ SelectSeq(stderr, IsUsage) =
              IF IsInvalidArgument(runErrWrites[1])
              THEN <<UsageOf(call[1].path)>> ELSE <<>>
        /\ RunReturned => result = <<runErrWrites[1]>>
        /\ pc \in {"main", "done"} => appResult = <<runErrWrites[1]>>

\* C5 witness: a nested leaf returned an invalid-argument error wrapped in
\* an exit-coded error
C5_Witness ==
    /\ pc = "done"
    /\ ran = <<"leaf">>
    /\ call[1].path = <<3, 1>>
    /\ runErrWrites = <<WrapError(2, newInvalidArgumentError(errorsNew("bad arg"))).err>>
    /\ SelectSeq(stderr, IsUsage) = <<Chunk("usage", "r p a")>>
    /\ osExit = <<2>>

\* --version is among the arguments of a node that has a Version and is
\* not deprecated, --help is not, and the node is not a root with
\* sub-commands (whose positional arguments C4 is about)
VersionRequested ==
    /\ ExecuteReturned
    /\ target # <<>>
    /\ target[1].path # <<>> \/ Len(rootCommand.SubCommands) = 0
    /\ IsDeclaredPath(Declared, target[1].path)
    /\ SourceAt(Declared, target[1].path).Version # ""
    /\ SourceAt(Declared, target[1].path).Deprecated = ""
    /\ "--version" \in Elems(target[1].args)
    /\ "--help" \notin Elems(target[1].args)

NotHidden(cmd) == ~cmd.Hidden

IsLeaf(cmd) == cmd.SubCommands = <<>>

\* --help-tree ran on a root whose children are leaves, one of them hidden
\* and two not, and its write succeeded
HelpTreeOnFlatRoot ==
    /\ pc \in {"return", "appRun", "main", "done"}
    /\ ran = <<"helpTree">>
    /\ call[1].path = <<>>
    /\ runErrWrites = <<NilErr>>
    /\ Len(rootCommand.SubCommands) = 3
    /\ \A i \in 1..3 : IsLeaf(rootCommand.SubCommands[i])
    /\ Len(SelectSeq(rootCommand.SubCommands, NotHidden)) = 2

ListingLine(depth, name, short, width) ==
    Repeat(" ", 2 * depth) \o name \o Repeat(" ", width - Len(name) - (2 * depth))
    \o "  " \o short \o "\n"

\* the lines of the root and of its two visible children (which the inputs
\* declare in the order of their names), padded to width
RootAndVisibleLines(width) ==
    ListingLine(0, Name(rootCommand), TrimSpace(rootCommand.Short), width)
    \o ListingLine(1, Name(SelectSeq(rootCommand.SubCommands, NotHidden)[1]),
                   SelectSeq(rootCommand.SubCommands, NotHidden)[1].Short, width)
    \o ListingLine(1, Name(SelectSeq(rootCommand.SubCommands, NotHidden)[2]),
                   SelectSeq(rootCommand.SubCommands, NotHidden)[2].Short, width)

\* C7 as stated: the listing holds exactly the root and the two visible
\* children.
C7_Original ==
    HelpTreeOnFlatRoot =>
        stdout = <<Chunk("text",
                         RootAndVisibleLines(
                             maxInt(Len(Name(rootCommand)),
                                    maxInt(2 + Len(Name(SelectSeq(rootCommand.SubCommands,
                                                                  NotHidden)[1])),
                                           2 + Len(Name(SelectSeq(rootCommand.SubCommands,
                                                                  NotHidden)[2]))))))>>

\* C7: the listing holds the root, its two visible children, the completion
\* command run adds with its four shells, and the library's help command,
\* all padded to the widest of them; the hidden child and the hidden
\* manpages command have no line.
C7_HelpTreeListing ==
    HelpTreeOnFlatRoot =>
        stdout = <<Chunk("text",
            RootAndVisibleLines(14)
            \o ListingLine(1, "completion",
                           "Generate auto-completion scripts for commonly used shells", 14)
            \o ListingLine(2, "bash", "Generate auto-completion scripts for bash", 14)
            \o ListingLine(2, "fish", "Generate auto-completion scripts for fish", 14)
            \o ListingLine(2, "powershell",
                           "Generate auto-completion scripts for powershell", 14)
            \o ListingLine(2, "zsh", "Generate auto-completion scripts for zsh", 14)
            \o ListingLine(1, "help", "Help about any command", 14))>>

\* C7 witness: the listing was written for the root with children a, bb
\* (hidden) and ccc
C7_Witness ==
    /\ pc = "done"
    /\ HelpTreeOnFlatRoot
    /\ osArgs = <<"prog", "--help-tree">>
    /\ rootCommand.SubCommands[2].Hidden
    /\ Len(stdout) = 1

IsHandler(h) == h \in {"leaf", "sub"}

\* C8 as stated: on a valid tree exactly one handler executes and the slot
\* is written exactly once, whatever the arguments.
C8_Original ==
    (pc = "done" /\ compiled # <<>>) =>
        /\ Len(SelectSeq(ran, IsHandler)) = 1
        /\ Len(runErrWrites) = 1

\* C8: on a valid tree at most one handler executes and the slot is written
\* at most once: exactly once when the library calls the handler of a
\* compiled node (by the leaf action, the synthetic handler, or the
\* --version or --help-tree branch, which run neither), and never when the
\* library prints help, rejects the arguments or serves a command of its
\* own.
C8_AtMostOneHandler ==
    /\ Len(SelectSeq(ran, IsHandler)) <= 1
    /\ Len(runErrWrites) <= 1
    /\ Len(ran) <= 1
    /\ ExecuteReturned =>
          /\ (call # <<>> /\ IsDeclaredPath(Declared, call[1].path)) =>
                /\ Len(runErrWrites) = 1
                /\ ran \in {<<"leaf">>, <<"sub">>, <<"version">>, <<"helpTree">>}
          /\ (call = <<>> \/ ~IsDeclaredPath(Declared, call[1].path)) =>
                /\ runErrWrites = <<>>
                /\ SelectSeq(ran, IsHandler) = <<>>
          /\ execErr # NilErr => call = <<>>
          /\ "--help" \in Elems(target[1].args) =>
                SelectSeq(ran, IsHandler) = <<>>

\* C8 witness: --help on a leaf: the library printed help and no handler
\* ran
C8_Witness ==
    /\ pc = "done"
    /\ compiled # <<>>
    /\ osArgs = <<"prog", "a", "--help">>
    /\ execErr = NilErr
    /\ ran = <<>>
    /\ runErrWrites = <<>>
    /\ stdout = <<Chunk("help", "r a")>>

\* C9: run returns the error of Execute when there is one, and the last
\* value written to the slot (nil when it was never written) otherwise.
C9_ExecuteErrorFirst ==
    (RunReturned /\ compiled # <<>>) =>
        result = <<IF execErr # NilErr THEN execErr
                   ELSE IF runErrWrites = <<>> THEN NilErr
                   ELSE runErrWrites[Len(runErrWrites)]>>

\* C9 witness: Execute failed and its error is the result
C9_Witness ==
    /\ pc = "done"
    /\ compiled # <<>>
    /\ execErr # NilErr
    /\ result = <<execErr>>
    /\ appResult = <<execErr>>

BeginsWithComplete(str) == Len(str) >= 10 /\ SubSeq(str, 1, 10) = "__complete"

\* C10 as stated: the out sink is standard output when any remaining
\* argument begins with "__complete" and standard error otherwise; the
\* error sink is standard error.
C10_Original ==
    compiled # <<>> =>
        /\ outSink = IF \E i \in 2..Len(osArgs) : BeginsWithComplete(osArgs[i])
                     THEN "stdout" ELSE "stderr"
        /\ errSink = "stderr"

\* C10: the out sink is standard output when the first remaining argument
\* begins with "__complete" and standard error otherwise; the error sink
\* is standard error.
C10_FirstArgSelectsSink ==
    compiled # <<>> =>
        /\ outSink = IF Len(osArgs) >= 2 /\ BeginsWithComplete(osArgs[2])
                     THEN "stdout" ELSE "stderr"
        /\ errSink = "stderr"

\* C10 witness: a completion request: its choices went to standard output
C10_Witness ==
    /\ pc = "done"
    /\ osArgs = <<"prog", "__completeNoDesc", "a">>
    /\ outSink = "stdout"
    /\ errSink = "stderr"
    /\ ran = <<"complete">>
    /\ stdout # <<>>

\* the names of the sub-commands of a compiled command, in the order added
NamesOf(commands) == [i \in 1..Len(commands) |-> Name(commands[i])]

\* the compiled commands strictly below the root
RECURSIVE Below(_)
Below(c) ==
    UNION {{c.commands[i]} \cup Below(c.commands[i]) : i \in 1..Len(c.commands)}

IsSynthetic(c) ==
    \/ Name(c) \in {"completion", "manpages"}
    \/ \E i \in 1..Len(c.Run) :
          c.Run[i].w = "leaf"
          /\ c.Run[i].v \in {"bash", "fish", "powershell", "zsh", "manpages"}

\* C11: the completion command with exactly the leaves bash, fish,
\* powershell and zsh, and the hidden manpages command taking exactly one
\* argument, are in the compiled tree if and only if the root has
\* sub-commands, as children of the root added after the declared ones; no
\* command below the root has them as children.
C11_SyntheticOnlyAtRoot ==
    compiled # <<>> =>
        /\ IF Len(rootCommand.SubCommands) > 0
           THEN /\ Len(compiled[1].commands) >= Len(rootCommand.SubCommands) + 2
                /\ LET shell == compiled[1].commands[Len(rootCommand.SubCommands) + 1]
                       manpages == compiled[1].commands[Len(rootCommand.SubCommands) + 2]
                   IN  /\ Name(shell) = "completion" /\ ~shell.Hidden
                       /\ NamesOf(shell.commands) = <<"bash", "fish", "powershell", "zsh">>
                       /\ \A i \in 1..4 : shell.commands[i].commands = <<>>
                       /\ Name(manpages) = "manpages" /\ manpages.Hidden
                       /\ manpages.Args = "ExactArgs1"
                       /\ manpages.commands = <<>>
                /\ \A i \in 1..Len(rootCommand.SubCommands) :
                      ~IsSynthetic(compiled[1].commands[i])
           ELSE \A c \in Below(compiled[1]) : ~IsSynthetic(c)
        /\ \A c \in Below(compiled[1]) :
              Name(c) # "completion" =>
                 \A i \in 1..Len(c.commands) : ~IsSynthetic(c.commands[i])

\* C11 witness: a root with a nested parent: the root got the two commands
\* and the nested parent kept its two declared children
C11_Witness ==
    /\ pc = "done"
    /\ compiled # <<>>
    /\ Len(rootCommand.SubCommands) = 3
    /\ Len(rootCommand.SubCommands[3].SubCommands) = 2
    /\ NamesOf(compiled[1].commands) = <<"a", "h", "p", "completion", "manpages", "help">>
    /\ NamesOf(compiled[1].commands[3].commands) = <<"a", "bb">>

(***************************************************************************)
(* Environment containers.                                                 *)
(***************************************************************************)
\* the container an observation was made of
ObservedContainer(o) == IF o.of = "base" THEN envBase ELSE envNew[1]

NonEmptyPart(m) == [k \in {x \in DOMAIN m : m[x] # ""} |-> m[k]]

IsSortedStrings(strs) ==
    \A i, j \in 1..Len(strs) : i < j => ~StringLess(strs[j], strs[i])

\* C12: no enumeration of an environment container (ForEachEnv, EnvironMap,
\* Environ) yields an entry with an empty value; EnvironMap of the container
\* built from a map is the map without its empty entries, so that of
\* {A:1, B:""} is {A:1}; Environ returns the KEY=VALUE strings of the entries
\* sorted as strings.
C12_EnumerationOmitsEmpty ==
    \A n \in 1..Len(envOut) :
        /\ envOut[n].op = "ForEachEnv" =>
              /\ \A i \in 1..Len(envOut[n].result) : envOut[n].result[i][2] # ""
              /\ {envOut[n].result[i] : i \in 1..Len(envOut[n].result)}
                 = {<<k, ObservedContainer(envOut[n])[k]>> :
                        k \in DOMAIN ObservedContainer(envOut[n])}
        /\ envOut[n].op = "EnvironMap" =>
              /\ \A k \in DOMAIN envOut[n].result : envOut[n].result[k] # ""
              /\ envOut[n].of = "base" => envOut[n].result = NonEmptyPart(envInput)
              /\ (envOut[n].of = "base" /\ envInput = [k \in {"A", "B"} |-> IF k = "A" THEN "1" ELSE ""])
                    => envOut[n].result = [k \in {"A"} |-> "1"]
        /\ envOut[n].op = "Environ" =>
              /\ IsSortedStrings(envOut[n].result)
              /\ Len(envOut[n].result) = Cardinality(DOMAIN ObservedContainer(envOut[n]))
              /\ {envOut[n].result[i] : i \in 1..Len(envOut[n].result)}
                 = {k \o "=" \o ObservedContainer(envOut[n])[k] :
                        k \in {x \in DOMAIN ObservedContainer(envOut[n]) :
                                  ObservedContainer(envOut[n])[x] # ""}}

\* C12 witness: Environ of the container built from {A:2, A1:1, B:""} has
\* returned A1=1 before A=2 and nothing for B.
C12_Witness ==
    /\ envInput = [k \in {"A", "A1", "B"} |->
                      IF k = "A" THEN "2" ELSE IF k = "A1" THEN "1" ELSE ""]
    /\ envOut # <<>>
    /\ envOut[1].op = "Environ"
    /\ envOut[1].of = "base"
    /\ envOut[1].result = <<"A1=1", "A=2">>

\* C13: in the container NewEnvContainerWithOverrides returns, a key with a
\* non-empty override has the override's value, a key with an empty override
\* is absent (its lookup is "" and no enumeration has it), every other key has
\* the value of the base; the base container is what it was before the call,
\* and so are its lookups and enumerations.
C13_OverridesLayered ==
    /\ envBase = NewEnvContainer(envInput)
    /\ \A n \in 1..Len(envNew) :
          \A k \in EnvKeys :
             /\ (k \in DOMAIN envOver[1] /\ envOver[1][k] # "")
                   => (k \in DOMAIN envNew[n] /\ Env(envNew[n], k) = envOver[1][k])
             /\ (k \in DOMAIN envOver[1] /\ envOver[1][k] = "")
                   => (k \notin DOMAIN envNew[n] /\ Env(envNew[n], k) = "")
             /\ k \notin DOMAIN envOver[1]
                   => (/\ Env(envNew[n], k) = Env(NewEnvContainer(envInput), k)
                       /\ k \in DOMAIN envNew[n] <=> k \in DOMAIN NewEnvContainer(envInput))
    /\ \A n \in 1..Len(envOut) :
          /\ (envOut[n].op = "Env" /\ envOut[n].of = "base")
                => envOut[n].result = Env(NewEnvContainer(envInput), envOut[n].key)
          /\ (envOut[n].op = "EnvironMap" /\ envOut[n].of = "base")
                => envOut[n].result = NonEmptyPart(envInput)
          /\ (envOut[n].op = "Env" /\ envOut[n].of = "new"
              /\ envOut[n].key \in DOMAIN envOver[1])
                => envOut[n].result = envOver[1][envOut[n].key]
          /\ (envOut[n].op = "EnvironMap" /\ envOut[n].of = "new")
                => \A k \in DOMAIN envOver[1] :
                      envOver[1][k] = "" => k \notin DOMAIN envOut[n].result

\* C13 witness: {A:1, B:2} was overridden with {A:"", A1:2}; the new container
\* is {A1:2, B:2} and a later lookup of A in the base returned 1.
C13_Witness ==
    /\ envInput = [k \in {"A", "B"} |-> IF k = "A" THEN "1" ELSE "2"]
    /\ envOver = <<[k \in {"A", "A1"} |-> IF k = "A" THEN "" ELSE "2"]>>
    /\ envNew = <<[k \in {"A1", "B"} |-> "2"]>>
    /\ envOut # <<>>
    /\ envOut[1].op = "Env"
    /\ envOut[1].of = "base"
    /\ envOut[1].key = "A"
    /\ envOut[1].result = "1"

(***************************************************************************)
(* The error of the application function in app.Run.                       *)
(***************************************************************************)
IsErrorMessage(chunk) == chunk.t = "error"

\* app.Run has returned
AppRunReturned == pc \in {"main", "done"}

\* C14: when the function app.Run calls returns a non-nil error (of a leaf,
\* of sub-command routing, of the build or of the command library), the
\* error's message is written to standard error exactly once and Run returns
\* that error; when it returns nil, Run returns nil and no error message is
\* written.
C14_ErrorPrintedOnce ==
    AppRunReturned =>
        /\ appResult = result
        /\ result[1] # NilErr =>
              SelectSeq(stderr, IsErrorMessage)
              = <<Chunk("error", ErrorString(result[1]))>>
        /\ result[1] = NilErr => SelectSeq(stderr, IsErrorMessage) = <<>>

\* C14 witness: Execute failed in the command library after usage was
\* printed; the message is on standard error once and Run returned the error.
C14_Witness ==
    /\ pc = "done"
    /\ compiled # <<>>
    /\ execErr # NilErr
    /\ ran = <<>>
    /\ appResult = <<execErr>>
    /\ \E i \in 1..Len(stderr) : stderr[i].t = "usage"
    /\ SelectSeq(stderr, IsErrorMessage) = <<Chunk("error", ErrorString(execErr))>>

(***************************************************************************)
(* Name containers.                                                        *)
(***************************************************************************)
\* C15: under every interleaving of the goroutines that call an accessor of
\* one name container (Port, ConfigDirPath, CacheDirPath, DataDirPath), the
\* computation of a field runs at most once, it has run once when a call has
\* returned, and every call returns the value and error that computation
\* produced.
C15_ComputedOnce ==
    /\ \A f \in Fields : Len(runs[f]) <= 1
    /\ \A i \in Goroutines :
          g[i].ret # <<>> =>
             /\ Len(runs[g[i].field]) = 1
             /\ g[i].ret[1] = runs[g[i].field][1]

\* C15 witness: two goroutines called Port while PORT was not a number; the
\* computation ran once and both returned its zero port and its error.
C15_Witness ==
    /\ g[1].pc = "done"
    /\ g[2].pc = "done"
    /\ g[1].field = "port"
    /\ g[2].field = "port"
    /\ Len(runs["port"]) = 1
    /\ runs["port"][1].err # NilErr
    /\ g[1].ret = <<runs["port"][1]>>
    /\ g[2].ret = g[1].ret

(***************************************************************************)
(* ModifyCobra.                                                            *)
(***************************************************************************)
RECURSIVE PathsOf(_)
PathsOf(cmd) ==
    {<<>>} \cup UNION {{<<i>> \o path : path \in PathsOf(cmd.SubCommands[i])} :
                          i \in 1..Len(cmd.SubCommands)}

\* C16 as stated: when the tree is executed, the ModifyCobra of every Command
\* that sets one, root or sub-command, has been applied to the command
\* compiled from it; an error of a ModifyCobra makes Run return before
\* anything is executed.
C16_Original ==
    /\ ExecuteReturned =>
          \A path \in PathsOf(rootCommand) :
              SourceAt(rootCommand, path).ModifyCobra # "nil"
                  => CommandAt(compiled[1], path).modified
    /\ (RunReturned /\ result = <<errorsNew("modify failed")>>) =>
          /\ compiled = <<>>
          /\ ran = <<>>
          /\ runErrWrites = <<>>

IsAlphanumeric(c) == Contains(Lower, c) \/ Contains(Upper, c) \/ Contains(Digits, c)

\* str with every maximal run of non-alphanumeric bytes replaced by one "_"
RECURSIVE CollapseRuns(_, _)
CollapseRuns(str, inRun) ==
    IF str = "" THEN ""
    ELSE IF IsAlphanumeric(SubSeq(str, 1, 1))
    THEN SubSeq(str, 1, 1) \o CollapseRuns(SubSeq(str, 2, Len(str)), FALSE)
    ELSE (IF inRun THEN "" ELSE "_") \o CollapseRuns(SubSeq(str, 2, Len(str)), TRUE)

\* C17 as stated: the prefix of a valid application name is the name
\* upper-cased, with each maximal run of non-alphanumeric characters replaced
\* by a single "_", and one "_" appended.
C17_Original ==
    prefixOut # <<>> => prefixOut[1] = CollapseRuns(ToUpper(appName), FALSE) \o "_"

\* C17: the prefix of a valid application name has one byte per byte of the
\* name, the upper-cased byte for a letter or digit and "_" for each "-" and
\* each "_", runs not collapsed, and one "_" appended: "a--b" and "a_-b"
\* both give "A__B_".
C17_EnvPrefix ==
    prefixOut # <<>> =>
        /\ validateAppName(appName) = NilErr
        /\ Len(prefixOut[1]) = Len(appName) + 1
        /\ SubSeq(prefixOut[1], Len(appName) + 1, Len(appName) + 1) = "_"
        /\ \A i \in 1..Len(appName) :
              SubSeq(prefixOut[1], i, i)
              = IF IsAlphanumeric(SubSeq(appName, i, i))
                THEN ToUpper(SubSeq(appName, i, i)) ELSE "_"
        /\ appName \in {"a--B", "a_-B"} => prefixOut[1] = "A__B_"

\* C17 witness: the prefix of "a--B" has been computed and is "A__B_"
C17_Witness ==
    /\ appName = "a--B"
    /\ nameErr = <<NilErr>>
    /\ prefixOut = <<"A__B_">>

(***************************************************************************)
(* The padding of --help-tree.                                             *)
(***************************************************************************)
\* C18: whatever the tree and its hidden flags, the padding helpTreeString
\* computes is at least 2 * depth + the length of the name of every command
\* the listing prints, so no count given to strings.Repeat is negative, and
\* in every line the short text starts two bytes after the padding.
C18_PaddingCoversPrinted ==
    \A n \in 1..Len(htOut) :
        /\ \A i \in 1..Len(htOut[n].lines) :
              /\ htOut[n].maxPadding
                 >= 2 * htOut[n].lines[i].depth + Len(htOut[n].lines[i].name)
              /\ htOut[n].lines[i].pad >= 0
              /\ Len(htOut[n].lines[i].text) = htOut[n].maxPadding + 2 + Len("S\n")
              /\ SubSeq(htOut[n].lines[i].text, htOut[n].maxPadding + 1,
                        Len(htOut[n].lines[i].text)) = "  S\n"
        /\ htOut[n].string = ConcatText(htOut[n].lines)

\* C18 witness: the hidden command at depth 3 is wider than the padding,
\* which the longest printed line fills exactly while a shorter line is
\* padded.
C18_Witness ==
    /\ htOut # <<>>
    /\ Len(htOut[1].lines) >= 3
    /\ htTree[1].commands[1].commands[1].commands[1].Hidden
    /\ 6 + Len(Name(htTree[1].commands[1].commands[1].commands[1])) > htOut[1].maxPadding
    /\ \E i \in 1..Len(htOut[1].lines) : htOut[1].lines[i].pad = 0
    /\ \E i \in 1..Len(htOut[1].lines) : htOut[1].lines[i].pad > 0

====
